---- MODULE Spec2Model ----
(***************************************************************************)
(* Model of the parking monitor backend (goreliy/ParkingSystem):           *)
(*   - OccupancyTracker          (backend/services/occupancy.py)           *)
(*   - AutoMarkupService/Session (backend/services/auto_markup.py)         *)
(*   - JSONStore spots/spaces    (backend/storage/json_store.py)           *)
(*   - create_spot endpoint      (backend/api/spots.py)                    *)
(* Python dicts are functions with a varying DOMAIN, Optional values are   *)
(* the empty tuple (None) or a one-element tuple (a value), time.time() is *)
(* the integer clock `now` in seconds.                                     *)
(***************************************************************************)
EXTENDS Integers, Sequences, FiniteSets, TLC

\* ------------------------------------------------------------------ bounds
MaxTicks == 3           \* the clock advances at most this many times
MaxSamples == 10        \* per-minute samples taken in the debounce scenario
MaxSeq == 4             \* numbers handed out before the tracker stops assigning
MaxBatch == 2           \* longest detections dict passed to update_detections
MaxProposals == 2       \* most vehicles a detector call or the tracker returns
MaxApproved == 2        \* longest approved_indices list of a request
MaxRequests == 2        \* requests served in one behaviour

\* --------------------------------------------------------- program values
Spots == {"A", "B"}
TickSeconds == 60
MinuteChoices == {1, 2}
DefaultOccupancyMinutes == 5
DefaultDuration == 60
DefaultStability == 30

None == <<>>
Some(v) == <<v>>

\* dict helpers
Get(d, k, default) == IF k \in DOMAIN d THEN d[k] ELSE default
Put(d, k, v) == [x \in (DOMAIN d) \cup {k} |-> IF x = k THEN v ELSE d[x]]
Del(d, k) == [x \in (DOMAIN d) \ {k} |-> d[x]]
EmptyDict == [x \in {} |-> 0]

VARIABLES
  \* OccupancyTracker
  now,                  \* time.time()
  occupancy_minutes,
  spot_timers,          \* spot_id -> first detection time
  spot_states,          \* spot_id -> is_occupied
  sequential_numbers,   \* spot_id -> sequential number
  next_sequential,
  changes,              \* return value of the last update_detections call
  issued,               \* history: the numbers assigned so far, in order of assignment
  streak                \* history: consecutive presence=true samples processed per spot

VARIABLES
  \* AutoMarkupService
  sessions,             \* session_id -> AutoMarkupSession
  task,                 \* the background thread of _run_analysis: pc, i, total_frames, samples
  cancel_called,        \* history: cancel_analysis was called on the session
  cancel_hit,           \* history: cancel_analysis found an 'average'/'duration' session 'analyzing'
  \* JSONStore
  spots_file,           \* spots.json: the list of spots
  spaces_file,          \* spaces.json: the list of spaces
  \* request handler threads (apply_proposals, create_spot)
  req,                  \* handler -> its position and local variables
  uuid_count,           \* uuid4 values handed out so far
  requests              \* requests started so far

occVars == <<now, occupancy_minutes, spot_timers, spot_states,
             sequential_numbers, next_sequential, changes, issued, streak>>
sessionVars == <<sessions, task, cancel_called, cancel_hit>>
storeVars == <<spots_file, spaces_file>>
handlerVars == <<req, uuid_count, requests>>
markupVars == <<sessionVars, storeVars, handlerVars>>

VARIABLES
  \* StateManager
  state_file,           \* state.json, the 'spaces' dict: space_id -> space record
  event_callbacks,      \* the registered subscribers, in order of registration
  delivered,            \* history: (subscriber, event_type) calls made by the last update
  update_result,        \* history: how the last update call ended for its caller
  state_lock,           \* StateManager.lock: the thread that holds it, if any
  callers,              \* thread -> its position in a StateManager call and the call's locals
  journal,              \* history: what the threads did to state.json and the subscribers, in order
  \* VehicleTracker
  detections_history,   \* camera_id -> the (timestamp, detections) samples retained
  window,               \* the (timestamp, bbox) detections handed to the clusterer
  stability_seconds,
  groups,               \* the clusters of _group_stable_detections, as positions of window
  stable,               \* the StableVehicles get_stable_vehicles returns
  \* history of the per-minute samples
  single_false,         \* spot -> 0: no false sample yet, k: only sample k was false, -1: several
  steady,               \* detection cycles so far, all reporting ScenarioPresence; -1: broken
  \* pure geometric functions
  geometry,             \* the last call: the function, its arguments and what it returned
  \* history of the tracker scenario
  sampled               \* the detections a step of the scenario passed to update_detections

lockVars == <<state_lock, callers, journal>>
stateMgrVars == <<state_file, event_callbacks, delivered, update_result, lockVars>>
clusterVars == <<detections_history, window, stability_seconds, groups, stable>>
historyVars == <<single_false, steady, geometry, sampled>>
auxVars == <<historyVars, stateMgrVars, clusterVars>>
notMarkup == <<occVars, auxVars>>
notOcc == <<markupVars, auxVars>>

vars == <<occVars, markupVars, auxVars>>

\* ====================================================== AutoMarkupService

SessionId == "markup_1"
SessionIds == {"markup_1", "markup_x"}     \* ids a request can name; markup_x is never registered
SpaceId == "space_1"
ModeChoices == {"single", "average", "duration", "bogus"}
DurationChoices == {4, 10}
AverageDuration == 30
AverageInterval == 1
DurationInterval == 5
BoxChoices == {"boxA", "boxB"}
Terminal == {"completed", "error", "cancelled"}
KnownModes == {"single", "average", "duration"}      \* auto_markup.py:309-314
CameraNotAvailable == "Camera not available"         \* auto_markup.py:339, str(e) of the RuntimeError
UnknownMode == "ValueError"                          \* auto_markup.py:316

\* auto_markup.py:209-224
NewSession(mode, duration_seconds) ==
  [mode |-> mode, duration_seconds |-> duration_seconds, status |-> "analyzing",
   progress |-> 0, frames_analyzed |-> 0, vehicles_found |-> 0,
   proposals |-> <<>>, error_message |-> None]

\* the thread before start_analysis creates it
NoTask == [pc |-> "none", i |-> 0, total_frames |-> 0, samples |-> 0, exc |-> "",
           detections |-> <<>>]

\* auto_markup.py:432-494, one SpotProposal per vehicle; suggested_rect is the
\* standardized box of the vehicle, suggested_label is "#<idx+1>"
CreateProposals(vehicles) ==
  [k \in 1..Len(vehicles) |->
     [index |-> k - 1, bbox |-> vehicles[k], suggested_rect |-> <<"rect", vehicles[k]>>,
      suggested_label |-> <<"#", k>>]]

\* auto_markup.py:455, the score every proposal of a 'single' session gets, as
\* the pair <<numerator, denominator>>
SingleScore == <<1, 1>>

\* proposals in reverse detector order, numbered from the last detection
create_proposals_from_detections_reversed(detections) ==
  [k \in 1..Len(detections) |->
     [index |-> k - 1, bbox |-> detections[Len(detections) + 1 - k],
      suggested_rect |-> <<"rect", detections[Len(detections) + 1 - k]>>,
      suggested_label |-> <<"#", k>>, stability_score |-> SingleScore]]

\* auto_markup.py:432-463, the proposals of a 'single' session
create_proposals_from_detections(detections) ==
  [k \in 1..Len(detections) |->
     [index |-> k - 1, bbox |-> detections[k], suggested_rect |-> <<"rect", detections[k]>>,
      suggested_label |-> <<"#", k>>, stability_score |-> SingleScore]]

\* what the detector / the tracker can return: up to MaxProposals vehicles
VehicleLists == UNION {[1..n -> BoxChoices] : n \in 0..MaxProposals}

\* auto_markup.py:383, int((i + 1) / total_frames * 100)
Progress(i, total_frames) == ((i + 1) * 100) \div total_frames

\* auto_markup.py:368 and 407, `for i in range(total_frames)`
LoopEntry(i, total_frames) == IF i < total_frames THEN "check" ELSE "collect"

TheSession == sessions[SessionId]
SetSession(s) == sessions' = Put(sessions, SessionId, s)

\* auto_markup.py:237-299
start_analysis(mode, duration_seconds) ==
  /\ SessionId \notin DOMAIN sessions
  /\ task.pc = "none"
  /\ spaces_file # <<>>
  /\ SetSession(NewSession(mode, duration_seconds))
  /\ task' = [NoTask EXCEPT !.pc = "run"]
  /\ UNCHANGED <<cancel_called, cancel_hit, storeVars, handlerVars>>

\* auto_markup.py:301-315 with 359-366 / 398-405: dispatch on the mode, then the
\* tracker, the exclusion zones (a store read that can fail) and total_frames
run_analysis(zones_ok) ==
  /\ task.pc = "run"
  /\ LET mode == TheSession.mode
         total == IF mode = "average" THEN AverageDuration \div AverageInterval
                  ELSE TheSession.duration_seconds \div DurationInterval
     IN  task' = IF mode = "single" THEN [task EXCEPT !.pc = "single"]
                 ELSE IF mode \notin {"average", "duration"}
                      THEN [task EXCEPT !.pc = "except", !.exc = UnknownMode]
                 ELSE IF ~zones_ok
                      THEN [task EXCEPT !.pc = "except", !.exc = "TimeoutError"]
                 ELSE [task EXCEPT !.pc = LoopEntry(0, total), !.total_frames = total]
  /\ UNCHANGED <<sessions, cancel_called, cancel_hit, storeVars, handlerVars>>

\* auto_markup.py:334-355
analyze_single_frame(frame, zones_ok, detections) ==
  /\ task.pc = "single"
  /\ IF ~frame
     THEN /\ task' = [task EXCEPT !.pc = "except", !.exc = CameraNotAvailable]
          /\ UNCHANGED sessions
     ELSE IF ~zones_ok
     THEN /\ task' = [task EXCEPT !.pc = "except", !.exc = "TimeoutError"]
          /\ UNCHANGED sessions
     ELSE /\ task' = [task EXCEPT !.pc = "returned", !.samples = 1,
                                  !.detections = detections]
          /\ SetSession([TheSession EXCEPT
                           !.frames_analyzed = 1,
                           !.vehicles_found = Len(detections),
                           !.progress = 100,
                           !.proposals = create_proposals_from_detections(detections)])
  /\ UNCHANGED <<cancel_called, cancel_hit, storeVars, handlerVars>>

\* auto_markup.py:369-370 and 408-409, the cooperative cancellation check
analyze_check ==
  /\ task.pc = "check"
  /\ task' = [task EXCEPT !.pc = IF TheSession.status = "cancelled"
                                 THEN "returned" ELSE "sample"]
  /\ UNCHANGED <<sessions, cancel_called, cancel_hit, storeVars, handlerVars>>

\* auto_markup.py:372-383 and 411-421, one sampling tick
analyze_sample(frame, raises) ==
  /\ task.pc = "sample"
  /\ IF raises
     THEN /\ task' = [task EXCEPT !.pc = "except", !.exc = "RuntimeError"]
          /\ UNCHANGED sessions
     ELSE IF ~frame
     THEN /\ task' = [task EXCEPT !.pc = "sleep"]
          /\ UNCHANGED sessions
     ELSE /\ task' = [task EXCEPT !.pc = "sleep", !.samples = @ + 1]
          /\ SetSession([TheSession EXCEPT
                           !.frames_analyzed = task.i + 1,
                           !.progress = Progress(task.i, task.total_frames)])
  /\ UNCHANGED <<cancel_called, cancel_hit, storeVars, handlerVars>>

\* auto_markup.py:385 and 423, time.sleep(interval), then the next i of the range
analyze_sleep ==
  /\ task.pc = "sleep"
  /\ task' = [task EXCEPT !.i = @ + 1, !.pc = LoopEntry(task.i + 1, task.total_frames)]
  /\ UNCHANGED <<sessions, cancel_called, cancel_hit, storeVars, handlerVars>>

\* auto_markup.py:387-394 and 425-430; get_stable_vehicles returns [] when the
\* history holds fewer than two samples (auto_markup.py:78-79), otherwise the
\* clusters that span stability_seconds (a request parameter)
analyze_collect(stable_vehicles) ==
  /\ task.pc = "collect"
  /\ task.samples < 2 => stable_vehicles = <<>>
  /\ task' = [task EXCEPT !.pc = "returned", !.detections = stable_vehicles]
  /\ SetSession([TheSession EXCEPT !.vehicles_found = Len(stable_vehicles),
                                   !.proposals = CreateProposals(stable_vehicles)])
  /\ UNCHANGED <<cancel_called, cancel_hit, storeVars, handlerVars>>

\* a thread that returns without recording the completion
run_completed_noStatus ==
  /\ task.pc = "returned"
  /\ task' = [task EXCEPT !.pc = "done"]
  /\ UNCHANGED <<sessions, cancel_called, cancel_hit, storeVars, handlerVars>>

\* auto_markup.py:317-319
run_completed ==
  /\ task.pc = "returned"
  /\ task' = [task EXCEPT !.pc = "done"]
  /\ SetSession([TheSession EXCEPT !.status = "completed"])
  /\ UNCHANGED <<cancel_called, cancel_hit, storeVars, handlerVars>>

\* an exception handler that records the status and drops the message
run_except_noMessage ==
  /\ task.pc = "except"
  /\ task' = [task EXCEPT !.pc = "done"]
  /\ SetSession([TheSession EXCEPT !.status = "error"])
  /\ UNCHANGED <<cancel_called, cancel_hit, storeVars, handlerVars>>

\* auto_markup.py:321-324
run_except ==
  /\ task.pc = "except"
  /\ task' = [task EXCEPT !.pc = "done"]
  /\ SetSession([TheSession EXCEPT !.status = "error", !.error_message = Some(task.exc)])
  /\ UNCHANGED <<cancel_called, cancel_hit, storeVars, handlerVars>>

\* auto_markup.py:734-742
cancel_analysis(session_id) ==
  /\ session_id \in DOMAIN sessions
  /\ sessions' = [sessions EXCEPT ![session_id].status = "cancelled"]
  /\ cancel_called' = TRUE
  /\ cancel_hit' = (cancel_hit \/ (sessions[session_id].status = "analyzing"
                                   /\ sessions[session_id].mode \in {"average", "duration"}))
  /\ UNCHANGED <<task, storeVars, handlerVars>>

\* ======================================= JSONStore and the request handlers

Handlers == {"h1", "h2"}
RequestLabel == <<"", 0>>           \* the label a create_spot request carries

\* spaces.py:62-72, a space as create_space stores it
NewSpace == [id |-> SpaceId, camera_ids |-> <<"cam_1">>, next_spot_number |-> 1]

IdleReq == [op |-> "idle", pc |-> "idle", approved_indices |-> <<>>, label_prefix |-> "",
            auto_number |-> FALSE, spot_number |-> None, spaces |-> <<>>,
            next_spot_number |-> 0, all_spots |-> <<>>, new_spots |-> <<>>, result |-> ""]

\* the handler ends: the exception (or the result) goes to the caller
Finish(r, result) == [r EXCEPT !.pc = "done", !.result = result]

\* next((s for s in spaces if s['id'] == space_id), None): position, 0 for None
FindSpace(spaces, space_id) ==
  IF \E k \in DOMAIN spaces : spaces[k].id = space_id
  THEN CHOOSE k \in DOMAIN spaces :
         /\ spaces[k].id = space_id
         /\ \A j \in DOMAIN spaces : spaces[j].id = space_id => k <= j
  ELSE 0

\* Python list indexing seq[idx]: the 1-based position, 0 when it raises IndexError
PyPosition(idx, len) ==
  IF idx >= 0 THEN (IF idx < len THEN idx + 1 ELSE 0)
  ELSE (IF len + idx >= 0 THEN len + idx + 1 ELSE 0)

\* a loop that gives every spot the counter it started with
RECURSIVE BuildSpots_noAdvance(_, _, _, _, _)
BuildSpots_noAdvance(approved_indices, proposals, label_prefix, auto_number, acc) ==
  IF approved_indices = <<>> \/ acc.raised THEN acc
  ELSE LET idx == Head(approved_indices)
           rest == Tail(approved_indices)
       IN IF idx >= Len(proposals)
          THEN BuildSpots_noAdvance(rest, proposals, label_prefix, auto_number, acc)
          ELSE IF PyPosition(idx, Len(proposals)) = 0
          THEN [acc EXCEPT !.raised = TRUE]
          ELSE LET proposal == proposals[PyPosition(idx, Len(proposals))]
                   new_spot ==
                     [id |-> acc.uuid + 1,
                      label |-> IF auto_number
                                THEN <<label_prefix, acc.next_spot_number>>
                                ELSE proposal.suggested_label,
                      spot_number |-> IF auto_number
                                      THEN Some(acc.next_spot_number) ELSE None,
                      rect |-> proposal.suggested_rect,
                      created_by |-> "auto_markup"]
               IN BuildSpots_noAdvance(rest, proposals, label_prefix, auto_number,
                     [acc EXCEPT !.new_spots = Append(@, new_spot),
                                 !.uuid = @ + 1])

\* auto_markup.py:685-716, the loop over approved_indices; acc carries
\* new_spots, next_spot_number, the uuid counter and whether IndexError was raised
RECURSIVE BuildSpots(_, _, _, _, _)
BuildSpots(approved_indices, proposals, label_prefix, auto_number, acc) ==
  IF approved_indices = <<>> \/ acc.raised THEN acc
  ELSE LET idx == Head(approved_indices)
           rest == Tail(approved_indices)
       IN IF idx >= Len(proposals)
          THEN BuildSpots(rest, proposals, label_prefix, auto_number, acc)
          ELSE IF PyPosition(idx, Len(proposals)) = 0
          THEN [acc EXCEPT !.raised = TRUE]
          ELSE LET proposal == proposals[PyPosition(idx, Len(proposals))]
                   new_spot ==
                     [id |-> acc.uuid + 1,
                      label |-> IF auto_number
                                THEN <<label_prefix, acc.next_spot_number>>
                                ELSE proposal.suggested_label,
                      spot_number |-> IF auto_number
                                      THEN Some(acc.next_spot_number) ELSE None,
                      rect |-> proposal.suggested_rect,
                      created_by |-> "auto_markup"]
               IN BuildSpots(rest, proposals, label_prefix, auto_number,
                     [acc EXCEPT !.new_spots = Append(@, new_spot),
                                 !.uuid = @ + 1,
                                 !.next_spot_number =
                                    IF auto_number THEN @ + 1 ELSE @])

\* auto_markup.py:585-608: the labels are rewritten in the session from the
\* space's counter and the proposal's position, then returned; an unknown
\* session returns None and a failing get_spaces raises, both without a change
get_proposals(session_id, read_ok) ==
  /\ session_id \in DOMAIN sessions
  /\ read_ok
  /\ LET k == FindSpace(spaces_file, SpaceId)
         next_spot_number == IF k = 0 THEN 1
                             ELSE Get(spaces_file[k], "next_spot_number", 1)
         proposals == sessions[session_id].proposals
     IN sessions' = [sessions EXCEPT ![session_id].proposals =
                       [idx \in DOMAIN proposals |->
                          [proposals[idx] EXCEPT
                             !.suggested_label = <<"", next_spot_number + (idx - 1)>>]]]
  /\ UNCHANGED <<task, cancel_called, cancel_hit, storeVars, handlerVars>>

\* auto_markup.py:663-678: the session and status checks, get_spaces, the space
\* lookup and the read of next_spot_number
apply_proposals_begin(h, session_id, approved_indices, label_prefix, auto_number, read_ok) ==
  /\ req[h].pc = "idle"
  /\ requests < MaxRequests
  /\ requests' = requests + 1
  /\ LET r == [IdleReq EXCEPT !.op = "apply", !.approved_indices = approved_indices,
                              !.label_prefix = label_prefix,
                              !.auto_number = auto_number]
         k == FindSpace(spaces_file, SpaceId)
         e == [IdleReq EXCEPT !.op = "apply"]
     IN req' = [req EXCEPT ![h] =
          IF session_id \notin DOMAIN sessions THEN Finish(e, "ValueError")
          ELSE IF sessions[session_id].status # "completed" THEN Finish(e, "ValueError")
          ELSE IF ~read_ok THEN Finish(e, "TimeoutError")
          ELSE IF k = 0 THEN Finish(e, "ValueError")
          ELSE [r EXCEPT !.pc = "build", !.spaces = spaces_file,
                         !.next_spot_number = Get(spaces_file[k], "next_spot_number", 1)]]
  /\ UNCHANGED <<storeVars, uuid_count>>

\* auto_markup.py:681-716: get_spots, then the loop
apply_proposals_build(h, read_ok) ==
  /\ req[h].op = "apply" /\ req[h].pc = "build"
  /\ LET r == req[h]
         b == BuildSpots(r.approved_indices, TheSession.proposals, r.label_prefix,
                         r.auto_number,
                         [new_spots |-> <<>>, next_spot_number |-> r.next_spot_number,
                          uuid |-> uuid_count, raised |-> FALSE])
     IN IF ~read_ok
        THEN req' = [req EXCEPT ![h] = Finish(r, "TimeoutError")] /\ UNCHANGED uuid_count
        ELSE IF b.raised
        THEN req' = [req EXCEPT ![h] = Finish([r EXCEPT !.all_spots = spots_file], "IndexError")]
             /\ uuid_count' = b.uuid
        ELSE req' = [req EXCEPT ![h] = [r EXCEPT !.pc = "save_spots",
                                                 !.all_spots = spots_file,
                                                 !.new_spots = b.new_spots,
                                                 !.next_spot_number = b.next_spot_number]]
             /\ uuid_count' = b.uuid
  /\ UNCHANGED <<storeVars, requests>>

\* auto_markup.py:719, json_store.py:56-70 and 152-153
apply_proposals_save_spots(h, write_ok) ==
  /\ req[h].op = "apply" /\ req[h].pc = "save_spots"
  /\ LET r == req[h] IN
     IF ~write_ok
     THEN req' = [req EXCEPT ![h] = Finish(r, "TimeoutError")] /\ UNCHANGED spots_file
     ELSE /\ spots_file' = r.all_spots \o r.new_spots
          /\ req' = [req EXCEPT ![h] = IF r.auto_number
                                       THEN [r EXCEPT !.pc = "save_spaces"]
                                       ELSE Finish(r, "ok")]
  /\ UNCHANGED <<spaces_file, uuid_count, requests>>

\* auto_markup.py:722-732, json_store.py:146-147
apply_proposals_save_spaces(h, write_ok) ==
  /\ req[h].op = "apply" /\ req[h].pc = "save_spaces"
  /\ LET r == req[h]
         k == FindSpace(r.spaces, SpaceId)
     IN IF ~write_ok
        THEN req' = [req EXCEPT ![h] = Finish(r, "TimeoutError")] /\ UNCHANGED spaces_file
        ELSE /\ spaces_file' = [r.spaces EXCEPT ![k] =
                                  Put(@, "next_spot_number", r.next_spot_number)]
             /\ req' = [req EXCEPT ![h] = Finish(r, "ok")]
  /\ UNCHANGED <<spots_file, uuid_count, requests>>

\* spots.py:51-67: the request is validated, then get_spots
create_spot_begin(h, spot_number, read_ok) ==
  /\ req[h].pc = "idle"
  /\ requests < MaxRequests
  /\ requests' = requests + 1
  /\ LET r == [IdleReq EXCEPT !.op = "create", !.spot_number = spot_number] IN
     req' = [req EXCEPT ![h] = IF ~read_ok THEN Finish(r, "TimeoutError")
                               ELSE [r EXCEPT !.pc = "get_spaces",
                                              !.all_spots = spots_file]]
  /\ UNCHANGED <<storeVars, uuid_count>>

\* spots.py:70-103: get_spaces, the space lookup, the uuid, the spot number
create_spot_get_spaces(h, read_ok) ==
  /\ req[h].op = "create" /\ req[h].pc = "get_spaces"
  /\ LET r == req[h]
         k == FindSpace(spaces_file, SpaceId)
         auto == r.spot_number = None
         number == IF auto THEN Get(spaces_file[k], "next_spot_number", 1)
                   ELSE r.spot_number[1]
         new_spot == [id |-> uuid_count + 1, label |-> RequestLabel,
                      spot_number |-> Some(number), rect |-> <<"rect", "request">>,
                      created_by |-> "manual"]
     IN IF ~read_ok
        THEN req' = [req EXCEPT ![h] = Finish(r, "TimeoutError")] /\ UNCHANGED uuid_count
        ELSE IF k = 0
        THEN req' = [req EXCEPT ![h] = Finish(r, "NotFound")] /\ UNCHANGED uuid_count
        ELSE /\ uuid_count' = uuid_count + 1
             /\ req' = [req EXCEPT ![h] =
                  [r EXCEPT !.pc = IF auto THEN "save_spaces" ELSE "save_spots",
                            !.auto_number = auto,
                            !.spaces = spaces_file,
                            !.next_spot_number = IF auto THEN number + 1 ELSE 0,
                            !.new_spots = <<new_spot>>]]
  /\ UNCHANGED <<storeVars, requests>>

\* spots.py:89-90
create_spot_save_spaces(h, write_ok) ==
  /\ req[h].op = "create" /\ req[h].pc = "save_spaces"
  /\ LET r == req[h]
         k == FindSpace(r.spaces, SpaceId)
     IN IF ~write_ok
        THEN req' = [req EXCEPT ![h] = Finish(r, "TimeoutError")] /\ UNCHANGED spaces_file
        ELSE /\ spaces_file' = [r.spaces EXCEPT ![k] =
                                  Put(@, "next_spot_number", r.next_spot_number)]
             /\ req' = [req EXCEPT ![h] = [r EXCEPT !.pc = "save_spots"]]
  /\ UNCHANGED <<spots_file, uuid_count, requests>>

\* spots.py:105-112
create_spot_save_spots(h, write_ok) ==
  /\ req[h].op = "create" /\ req[h].pc = "save_spots"
  /\ LET r == req[h] IN
     IF ~write_ok
     THEN req' = [req EXCEPT ![h] = Finish(r, "TimeoutError")] /\ UNCHANGED spots_file
     ELSE /\ spots_file' = r.all_spots \o r.new_spots
          /\ req' = [req EXCEPT ![h] = Finish(r, "ok")]
  /\ UNCHANGED <<spaces_file, uuid_count, requests>>

\* the response is sent and the thread serves the next request
handler_return(h) ==
  /\ req[h].pc = "done"
  /\ req' = [req EXCEPT ![h] = IdleReq]
  /\ UNCHANGED <<storeVars, uuid_count, requests>>

\* ------------------------------------------------- initial states and steps

\* app.py:100-124 and auto_markup.py:230-235: no session, idle handlers, one
\* space without spots in the store
InitMarkupIdle ==
  /\ sessions = EmptyDict
  /\ task = NoTask
  /\ cancel_called = FALSE
  /\ cancel_hit = FALSE
  /\ spots_file = <<>>
  /\ spaces_file = <<NewSpace>>
  /\ req = [h \in Handlers |-> IdleReq]
  /\ uuid_count = 0
  /\ requests = 0

\* the state a 'single' session reaches on a frame with the given detections
\* (start_analysis, run_analysis, analyze_single_frame, run_completed)
InitMarkupCompleted ==
  \E detections \in VehicleLists :
    /\ sessions = (SessionId :>
                    [NewSession("single", DefaultDuration) EXCEPT
                       !.status = "completed", !.frames_analyzed = 1,
                       !.vehicles_found = Len(detections), !.progress = 100,
                       !.proposals = create_proposals_from_detections(detections)])
    /\ task = [NoTask EXCEPT !.pc = "done", !.samples = 1, !.detections = detections]
    /\ cancel_called = FALSE
    /\ cancel_hit = FALSE
    /\ spots_file = <<>>
    /\ spaces_file = <<NewSpace>>
    /\ req = [h \in Handlers |-> IdleReq]
    /\ uuid_count = 0
    /\ requests = 0

StartAnalysis(Modes) ==
  \E mode \in Modes :
    \E d \in (IF mode = "duration" THEN DurationChoices ELSE {DefaultDuration}) :
       start_analysis(mode, d) /\ UNCHANGED notMarkup
RunAnalysis == \E zones_ok \in BOOLEAN : run_analysis(zones_ok) /\ UNCHANGED notMarkup
AnalyzeSingleFrame ==
  \E frame, zones_ok \in BOOLEAN : \E detections \in VehicleLists :
     analyze_single_frame(frame, zones_ok, detections) /\ UNCHANGED notMarkup
AnalyzeCheck == analyze_check /\ UNCHANGED notMarkup
AnalyzeSample ==
  \E frame, raises \in BOOLEAN : analyze_sample(frame, raises) /\ UNCHANGED notMarkup
AnalyzeSleep == analyze_sleep /\ UNCHANGED notMarkup
AnalyzeCollect ==
  \E stable_vehicles \in VehicleLists :
     analyze_collect(stable_vehicles) /\ UNCHANGED notMarkup
RunCompleted == run_completed /\ UNCHANGED notMarkup
RunExcept == run_except /\ UNCHANGED notMarkup
CancelAnalysis == \E sid \in SessionIds : cancel_analysis(sid) /\ UNCHANGED notMarkup
GetProposals ==
  \E sid \in SessionIds, read_ok \in BOOLEAN : get_proposals(sid, read_ok) /\ UNCHANGED notMarkup

ApplyBegin(H, Approved, Prefixes, Oks) ==
  \E h \in H, sid \in SessionIds, a \in Approved, p \in Prefixes :
    \E auto \in BOOLEAN, read_ok \in Oks :
       apply_proposals_begin(h, sid, a, p, auto, read_ok)
       /\ UNCHANGED <<sessionVars, notMarkup>>
ApplyBuild(H, Oks) ==
  \E h \in H, read_ok \in Oks :
     apply_proposals_build(h, read_ok) /\ UNCHANGED <<sessionVars, notMarkup>>
ApplySaveSpots(H, Oks) ==
  \E h \in H, write_ok \in Oks :
     apply_proposals_save_spots(h, write_ok) /\ UNCHANGED <<sessionVars, notMarkup>>
ApplySaveSpaces(H, Oks) ==
  \E h \in H, write_ok \in Oks :
     apply_proposals_save_spaces(h, write_ok) /\ UNCHANGED <<sessionVars, notMarkup>>
CreateSpotBegin(H, Numbers, Oks) ==
  \E h \in H, n \in Numbers, read_ok \in Oks :
     create_spot_begin(h, n, read_ok) /\ UNCHANGED <<sessionVars, notMarkup>>
CreateSpotGetSpaces(H, Oks) ==
  \E h \in H, read_ok \in Oks :
     create_spot_get_spaces(h, read_ok) /\ UNCHANGED <<sessionVars, notMarkup>>
CreateSpotSaveSpaces(H, Oks) ==
  \E h \in H, write_ok \in Oks :
     create_spot_save_spaces(h, write_ok) /\ UNCHANGED <<sessionVars, notMarkup>>
CreateSpotSaveSpots(H, Oks) ==
  \E h \in H, write_ok \in Oks :
     create_spot_save_spots(h, write_ok) /\ UNCHANGED <<sessionVars, notMarkup>>
HandlerReturn(H) ==
  \E h \in H : handler_return(h) /\ UNCHANGED <<sessionVars, notMarkup>>

\* ======================================================= OccupancyTracker

TrackerState == [spot_timers |-> spot_timers, spot_states |-> spot_states,
                 sequential_numbers |-> sequential_numbers,
                 next_sequential |-> next_sequential,
                 changes |-> EmptyDict, issued |-> issued]

\* occupancy.py:33
ThresholdSeconds(minutes) == minutes * 60

\* a dwell test that needs strictly more than the threshold
ThresholdReached_strict(current_time, timer_start, threshold_seconds) ==
  current_time - timer_start > threshold_seconds

\* a dwell test that any second sample passes
ThresholdReached_always(current_time, timer_start, threshold_seconds) == TRUE

\* occupancy.py:47-48, the dwell test
ThresholdReached(current_time, timer_start, threshold_seconds) ==
  current_time - timer_start >= threshold_seconds

\* a flip to occupied that forgets to advance the counter
MarkOccupied_noIncrement(st, spot_id, current_time) ==
  [st EXCEPT !.spot_states = Put(@, spot_id, TRUE),
             !.sequential_numbers = Put(@, spot_id, st.next_sequential),
             !.issued = Append(@, st.next_sequential),
             !.changes = Put(@, spot_id,
                 [occupied |-> TRUE,
                  detected_at |-> Some(st.spot_timers[spot_id]),
                  occupied_since |-> Some(current_time),
                  sequential_number |-> Some(st.next_sequential)])]

\* a flip to occupied that reports the time of the flip as detected_at
MarkOccupied_detectedNow(st, spot_id, current_time) ==
  [st EXCEPT !.spot_states = Put(@, spot_id, TRUE),
             !.sequential_numbers = Put(@, spot_id, st.next_sequential),
             !.next_sequential = @ + 1,
             !.issued = Append(@, st.next_sequential),
             !.changes = Put(@, spot_id,
                 [occupied |-> TRUE,
                  detected_at |-> Some(current_time),
                  occupied_since |-> Some(current_time),
                  sequential_number |-> Some(st.next_sequential)])]

\* occupancy.py:50-63, the spot flips to occupied
MarkOccupied(st, spot_id, current_time) ==
  [st EXCEPT !.spot_states = Put(@, spot_id, TRUE),
             !.sequential_numbers = Put(@, spot_id, st.next_sequential),
             !.next_sequential = @ + 1,
             !.issued = Append(@, st.next_sequential),
             !.changes = Put(@, spot_id,
                 [occupied |-> TRUE,
                  detected_at |-> Some(st.spot_timers[spot_id]),
                  occupied_since |-> Some(current_time),
                  sequential_number |-> Some(st.next_sequential)])]

\* a flip to free that keeps the sequential number
MarkFree_keepNumber(st, spot_id) ==
  [st EXCEPT !.spot_states = Put(@, spot_id, FALSE),
             !.changes = Put(@, spot_id,
                 [occupied |-> FALSE, detected_at |-> None,
                  occupied_since |-> None, sequential_number |-> None])]

\* a flip to free that emits no change record
MarkFree_noRecord(st, spot_id) ==
  [st EXCEPT !.spot_states = Put(@, spot_id, FALSE),
             !.sequential_numbers = Del(@, spot_id)]

\* occupancy.py:70-81, the spot flips to free
MarkFree(st, spot_id) ==
  [st EXCEPT !.spot_states = Put(@, spot_id, FALSE),
             !.sequential_numbers = Del(@, spot_id),
             !.changes = Put(@, spot_id,
                 [occupied |-> FALSE, detected_at |-> None,
                  occupied_since |-> None, sequential_number |-> None])]

\* a loop body in which a sample without a vehicle leaves the timer running
ProcessOne_keepTimer(st, spot_id, vehicle_detected, current_time, threshold_seconds) ==
  LET was_occupied == Get(st.spot_states, spot_id, FALSE) IN
  IF vehicle_detected
  THEN IF spot_id \notin DOMAIN st.spot_timers
       THEN [st EXCEPT !.spot_timers = Put(@, spot_id, current_time)]
       ELSE IF ThresholdReached(current_time, st.spot_timers[spot_id], threshold_seconds)
               /\ ~was_occupied
            THEN MarkOccupied(st, spot_id, current_time)
            ELSE st
  ELSE IF was_occupied THEN MarkFree(st, spot_id) ELSE st

\* a loop body that tests the dwell time already at the first detection
ProcessOne_flipAtOnce(st, spot_id, vehicle_detected, current_time, threshold_seconds) ==
  LET was_occupied == Get(st.spot_states, spot_id, FALSE)
      started == IF spot_id \in DOMAIN st.spot_timers THEN st
                 ELSE [st EXCEPT !.spot_timers = Put(@, spot_id, current_time)]
  IN IF vehicle_detected
     THEN IF ThresholdReached(current_time, started.spot_timers[spot_id], threshold_seconds)
             /\ ~was_occupied
          THEN MarkOccupied(started, spot_id, current_time)
          ELSE started
     ELSE LET cleared == [st EXCEPT !.spot_timers = Del(@, spot_id)] IN
          IF was_occupied THEN MarkFree(cleared, spot_id) ELSE cleared

\* occupancy.py:37-82, the body of the loop for one (spot_id, vehicle_detected)
ProcessOne(st, spot_id, vehicle_detected, current_time, threshold_seconds) ==
  LET was_occupied == Get(st.spot_states, spot_id, FALSE) IN
  IF vehicle_detected
  THEN IF spot_id \notin DOMAIN st.spot_timers
       THEN [st EXCEPT !.spot_timers = Put(@, spot_id, current_time)]
       ELSE IF ThresholdReached(current_time, st.spot_timers[spot_id], threshold_seconds)
               /\ ~was_occupied
            THEN MarkOccupied(st, spot_id, current_time)
            ELSE st
  ELSE LET cleared == [st EXCEPT !.spot_timers = Del(@, spot_id)] IN
       IF was_occupied THEN MarkFree(cleared, spot_id) ELSE cleared

\* a loop in which a spot reported empty stops the timers of all spots
RECURSIVE ProcessDetections_clearAll(_, _, _, _)
ProcessDetections_clearAll(st, dets, current_time, threshold_seconds) ==
  IF dets = <<>> THEN st
  ELSE LET one == ProcessOne(st, Head(dets)[1], Head(dets)[2], current_time,
                             threshold_seconds)
       IN ProcessDetections_clearAll(
            IF Head(dets)[2] THEN one ELSE [one EXCEPT !.spot_timers = EmptyDict],
            Tail(dets), current_time, threshold_seconds)

\* occupancy.py:36, the loop over detections.items() in dict order
RECURSIVE ProcessDetections(_, _, _, _)
ProcessDetections(st, dets, current_time, threshold_seconds) ==
  IF dets = <<>> THEN st
  ELSE ProcessDetections(
         ProcessOne(st, Head(dets)[1], Head(dets)[2], current_time, threshold_seconds),
         Tail(dets), current_time, threshold_seconds)

\* the detections dicts: sequences of (spot_id, vehicle_detected) with distinct keys
DetectionDicts(maxlen) ==
  {d \in UNION {[1..n -> Spots \X BOOLEAN] : n \in 0..maxlen} :
     \A i, j \in DOMAIN d : i # j => d[i][1] # d[j][1]}

RECURSIVE StreakAfter(_, _)
StreakAfter(sk, dets) ==
  IF dets = <<>> THEN sk
  ELSE StreakAfter([sk EXCEPT ![Head(dets)[1]] = IF Head(dets)[2] THEN @ + 1 ELSE 0],
                   Tail(dets))

\* the record of false samples after sample number n reported dets
RECURSIVE SingleFalseAfter(_, _, _)
SingleFalseAfter(sf, dets, n) ==
  IF dets = <<>> THEN sf
  ELSE SingleFalseAfter(
         [sf EXCEPT ![Head(dets)[1]] = IF Head(dets)[2] THEN @
                                       ELSE IF @ = 0 THEN n ELSE -1],
         Tail(dets), n)

\* occupancy.py:22-84, with current_time = time.time() read at line 32
update_detections(detections, current_time) ==
  LET r == ProcessDetections(TrackerState, detections, current_time,
                             ThresholdSeconds(occupancy_minutes)) IN
  /\ r.next_sequential <= MaxSeq + 1
  /\ spot_timers' = r.spot_timers
  /\ spot_states' = r.spot_states
  /\ sequential_numbers' = r.sequential_numbers
  /\ next_sequential' = r.next_sequential
  /\ changes' = r.changes
  /\ issued' = r.issued
  /\ UNCHANGED occupancy_minutes

\* occupancy.py:106-114
reset_spot(spot_id) ==
  /\ spot_timers' = Del(spot_timers, spot_id)
  /\ spot_states' = Del(spot_states, spot_id)
  /\ sequential_numbers' = Del(sequential_numbers, spot_id)
  /\ streak' = [streak EXCEPT ![spot_id] = 0]
  /\ UNCHANGED <<now, occupancy_minutes, next_sequential, changes, issued>>

\* occupancy.py:116-119
set_occupancy_threshold(minutes) ==
  /\ occupancy_minutes' = minutes
  /\ UNCHANGED <<now, spot_timers, spot_states, sequential_numbers,
                 next_sequential, changes, issued, streak>>

\* time.time() advances between calls
Tick ==
  /\ now + TickSeconds <= MaxTicks * TickSeconds
  /\ now' = now + TickSeconds
  /\ UNCHANGED <<occupancy_minutes, spot_timers, spot_states, sequential_numbers,
                 next_sequential, changes, issued, streak>>

\* occupancy.py:15-20
InitOcc ==
  /\ now = 0
  /\ spot_timers = EmptyDict
  /\ spot_states = EmptyDict
  /\ sequential_numbers = EmptyDict
  /\ next_sequential = 1
  /\ changes = EmptyDict
  /\ issued = <<>>
  /\ streak = [s \in Spots |-> 0]

\* no StateManager update was called since the stores were last edited
NoCall == [op |-> "", keys |-> {}, raising |-> {}, result |-> ""]

\* json_store.py:39-42 (state.json as created), state.py:15-18 (no subscriber),
\* auto_markup.py:47-49 (a tracker with an empty history)
\* no geometric function has been called
NoGeometry == [fn |-> "", args |-> <<>>, result |-> <<>>]
GeometryCall(fn, args, result) == [fn |-> fn, args |-> args, result |-> result]
InitHistory ==
  /\ single_false = [s \in Spots |-> 0]
  /\ steady = 0
  /\ geometry = NoGeometry
  /\ sampled = None
\* no thread is in a StateManager call
NoCaller == [pc |-> "idle", op |-> "", arg |-> <<>>, data |-> <<>>]
Callers == {"t1", "t2"}
InitNoCaller ==
  /\ state_lock = None
  /\ callers = [t \in Callers |-> NoCaller]
  /\ journal = <<>>
InitNoSubscriber ==
  /\ event_callbacks = <<>>
  /\ delivered = <<>>
  /\ update_result = NoCall
  /\ InitNoCaller
InitNoWindow ==
  /\ detections_history = EmptyDict
  /\ window = <<>>
  /\ stability_seconds = DefaultStability
  /\ groups = <<>>
  /\ stable = <<>>
InitAux ==
  /\ InitHistory
  /\ state_file = EmptyDict
  /\ InitNoSubscriber
  /\ InitNoWindow

UpdateDetections ==
  \E d \in DetectionDicts(MaxBatch) :
     update_detections(d, now) /\ UNCHANGED <<now, streak, notOcc>>
ResetSpot == \E s \in Spots : reset_spot(s) /\ UNCHANGED notOcc
SetOccupancyThreshold ==
  \E m \in MinuteChoices : set_occupancy_threshold(m) /\ UNCHANGED notOcc
ClockTick == Tick /\ UNCHANGED notOcc

\* ---- update_detections with its argument on record, for any threshold
ThresholdChoices == {0, 1}                   \* occupancy.py:116-118 takes any integer
TrackerRest == <<markupVars, single_false, steady, geometry, stateMgrVars, clusterVars>>
TrackerUpdate ==
  \E d \in DetectionDicts(MaxBatch) :
     /\ update_detections(d, now)
     /\ sampled' = Some(d)
     /\ UNCHANGED <<now, streak, TrackerRest>>
TrackerReset ==
  \E s \in Spots : reset_spot(s) /\ sampled' = None /\ UNCHANGED TrackerRest
TrackerTick == Tick /\ sampled' = None /\ UNCHANGED TrackerRest
InitTracker ==
  InitOcc /\ occupancy_minutes \in ThresholdChoices /\ InitMarkupIdle /\ InitAux
NextTracker == TrackerUpdate \/ TrackerReset \/ TrackerTick
SpecTracker == InitTracker /\ [][NextTracker]_vars

\* ---- the same with the run of true samples of each spot on record, counted
\* up to MaxStreak
MaxStreak == 2
DwellUpdate ==
  \E d \in DetectionDicts(MaxBatch) :
     /\ update_detections(d, now)
     /\ sampled' = Some(d)
     /\ streak' = [s \in Spots |-> IF StreakAfter(streak, d)[s] > MaxStreak
                                   THEN MaxStreak ELSE StreakAfter(streak, d)[s]]
     /\ UNCHANGED <<now, TrackerRest>>
NextDwell == DwellUpdate \/ TrackerReset \/ TrackerTick
SpecDwell == InitTracker /\ [][NextDwell]_vars

InitOccAny == InitOcc /\ occupancy_minutes \in MinuteChoices /\ InitMarkupIdle /\ InitAux
NextOcc == UpdateDetections \/ ResetSpot \/ SetOccupancyThreshold \/ ClockTick
SpecOcc == InitOccAny /\ [][NextOcc]_vars

\* ---- the debounce scenario: every spot is sampled once per minute
\* app.py:241-298 drives update_detections at a fixed interval; here 60 s
MinuteSample ==
  \E d \in DetectionDicts(Cardinality(Spots)) :
     /\ Len(d) = Cardinality(Spots)
     /\ now + TickSeconds <= MaxSamples * TickSeconds
     /\ now' = now + TickSeconds
     /\ update_detections(d, now + TickSeconds)
     /\ streak' = StreakAfter(streak, d)
     /\ single_false' = SingleFalseAfter(single_false, d, (now + TickSeconds) \div TickSeconds)
     /\ UNCHANGED <<markupVars, steady, geometry, sampled, stateMgrVars, clusterVars>>

InitDebounce == InitOcc /\ occupancy_minutes = DefaultOccupancyMinutes /\ InitMarkupIdle /\ InitAux
NextDebounce == MinuteSample \/ ResetSpot
SpecDebounce == InitDebounce /\ [][NextDebounce]_vars

\* ---- the calibration session: the background task, cancel and one handler
InitIdleTracker == InitOcc /\ occupancy_minutes = DefaultOccupancyMinutes
ApprovedFew == {<<0>>, <<1, 0>>}
IndexChoices == {-3, -1, 0, 1, 2}
ApprovedLists == UNION {[1..n -> IndexChoices] : n \in 0..MaxApproved}

InitSession == InitIdleTracker /\ InitMarkupIdle /\ InitAux
NextSession ==
  \/ StartAnalysis(ModeChoices) \/ RunAnalysis \/ AnalyzeSingleFrame \/ AnalyzeCheck
  \/ AnalyzeSample \/ AnalyzeSleep \/ AnalyzeCollect \/ RunCompleted \/ RunExcept
  \/ CancelAnalysis
SpecSession == InitSession /\ [][NextSession]_vars

\* ---- the same with a background thread that keeps being scheduled
\* (auto_markup.py:290-294, a daemon thread; its sleeps and calls return)
ThreadStep ==
  \/ RunAnalysis \/ AnalyzeSingleFrame \/ AnalyzeCheck \/ AnalyzeSample
  \/ AnalyzeSleep \/ AnalyzeCollect \/ RunCompleted \/ RunExcept
SpecSessionLive == InitSession /\ [][NextSession]_vars /\ WF_vars(ThreadStep)

\* ---- the same with a request handler calling apply_proposals
NextSessionApply ==
  \/ StartAnalysis({"single", "duration"}) \/ RunAnalysis \/ AnalyzeSingleFrame
  \/ AnalyzeCheck \/ AnalyzeSample \/ AnalyzeSleep \/ AnalyzeCollect
  \/ RunCompleted \/ RunExcept \/ CancelAnalysis
  \/ ApplyBegin({"h1"}, ApprovedFew, {"A"}, BOOLEAN) \/ ApplyBuild({"h1"}, BOOLEAN)
  \/ ApplySaveSpots({"h1"}, BOOLEAN) \/ ApplySaveSpaces({"h1"}, BOOLEAN) \/ HandlerReturn({"h1"})
SpecSessionApply == InitSession /\ [][NextSessionApply]_vars

\* ---- apply_proposals and create_spot, one request at a time, on a completed session
InitApply == InitIdleTracker /\ InitMarkupCompleted /\ InitAux
NextApply ==
  \/ ApplyBegin({"h1"}, ApprovedLists, {"A", "B"}, BOOLEAN) \/ ApplyBuild({"h1"}, BOOLEAN)
  \/ ApplySaveSpots({"h1"}, BOOLEAN) \/ ApplySaveSpaces({"h1"}, BOOLEAN)
  \/ CreateSpotBegin({"h1"}, {None, Some(1)}, BOOLEAN) \/ CreateSpotGetSpaces({"h1"}, BOOLEAN)
  \/ CreateSpotSaveSpaces({"h1"}, BOOLEAN) \/ CreateSpotSaveSpots({"h1"}, BOOLEAN)
  \/ HandlerReturn({"h1"})
SpecApply == InitApply /\ [][NextApply]_vars

\* ---- get_proposals and apply_proposals on a completed session
\* all, a proper subset, another order, a repetition, one past the end
ApprovedOrders == {<<0, 1>>, <<0>>, <<1>>, <<1, 0>>, <<0, 0>>, <<0, 2>>}
NextLabels ==
  \/ GetProposals
  \/ ApplyBegin({"h1"}, ApprovedOrders, {"A"}, {TRUE}) \/ ApplyBuild({"h1"}, {TRUE})
  \/ ApplySaveSpots({"h1"}, {TRUE}) \/ ApplySaveSpaces({"h1"}, BOOLEAN)
  \/ HandlerReturn({"h1"})
SpecLabels == InitApply /\ [][NextLabels]_vars

\* ---- two handler threads numbering spots of the same space (app.py:315,
\* threaded=True), with a store whose reads and writes all succeed
NextRace ==
  \/ ApplyBegin(Handlers, {<<0>>}, {"A"}, {TRUE}) \/ ApplyBuild(Handlers, {TRUE})
  \/ ApplySaveSpots(Handlers, {TRUE}) \/ ApplySaveSpaces(Handlers, {TRUE})
  \/ CreateSpotBegin(Handlers, {None}, {TRUE}) \/ CreateSpotGetSpaces(Handlers, {TRUE})
  \/ CreateSpotSaveSpaces(Handlers, {TRUE}) \/ CreateSpotSaveSpots(Handlers, {TRUE})
  \/ HandlerReturn(Handlers)
SpecRace == InitApply /\ [][NextRace]_vars

\* ============================================================ StateManager

SpaceIds == {"space_1", "space_2"}
SpotTypes == {"parking", "nopark"}            \* spots.py:60
Subscribers == <<"sse", "bot">>               \* callbacks in the order they register
MaxSpots == 2                                 \* spots created in one behaviour

\* the per-spot records the tracker reports (occupancy.py:54-63 and 76-81) and,
\* for update_spot_state, a record without the 'occupied' key
ChangeRecords ==
  {[occupied |-> TRUE, sequential_number |-> Some(1)],
   [occupied |-> FALSE, sequential_number |-> None]}
StateUpdates == ChangeRecords \cup {[sequential_number |-> None]}

\* state.py:41-46, 78-83, 170-175
EmptySpace == [total_spots |-> 0, occupied_spots |-> 0, free_spots |-> 0, spots |-> EmptyDict]

\* next((s for s in spots if s['id'] == spot_id), None): position, 0 for None
FindSpot(spots, spot_id) ==
  IF \E k \in DOMAIN spots : spots[k].id = spot_id
  THEN CHOOSE k \in DOMAIN spots :
         /\ spots[k].id = spot_id
         /\ \A j \in DOMAIN spots : spots[j].id = spot_id => k <= j
  ELSE 0

\* a recalculation that leaves free_spots as stored
recalculate_space_stats_keepFree(data, spots, space_id) ==
  LET space_spots == SelectSeq(spots, LAMBDA sp : sp.space_id = space_id /\ sp.type = "parking")
      total == Len(space_spots)
      occupied == Cardinality({k \in DOMAIN space_spots :
                     Get(Get(data[space_id].spots, space_spots[k].id, EmptyDict),
                         "occupied", FALSE)})
  IN [data EXCEPT ![space_id].total_spots = total,
                  ![space_id].occupied_spots = occupied]

\* a recalculation that adjusts the stored counters instead of recounting
recalculate_space_stats_incremental(data, spots, space_id) ==
  LET space_spots == SelectSeq(spots, LAMBDA sp : sp.space_id = space_id /\ sp.type = "parking")
      occupied == Cardinality({k \in DOMAIN space_spots :
                     Get(Get(data[space_id].spots, space_spots[k].id, EmptyDict),
                         "occupied", FALSE)})
  IN [data EXCEPT ![space_id].occupied_spots = occupied,
                  ![space_id].free_spots = data[space_id].total_spots - occupied]

\* state.py:97-111
recalculate_space_stats(data, spots, space_id) ==
  LET space_spots == SelectSeq(spots, LAMBDA sp : sp.space_id = space_id /\ sp.type = "parking")
      total == Len(space_spots)
      occupied == Cardinality({k \in DOMAIN space_spots :
                     Get(Get(data[space_id].spots, space_spots[k].id, EmptyDict),
                         "occupied", FALSE)})
      free == total - occupied
  IN [data EXCEPT ![space_id].total_spots = total,
                  ![space_id].occupied_spots = occupied,
                  ![space_id].free_spots = free]

\* state.py:69-85, the loop over updates.items(); acc carries data and affected_spaces
RECURSIVE StoreUpdates(_, _, _)
StoreUpdates(acc, spots, updates) ==
  IF updates = <<>> THEN acc
  ELSE LET spot_id == Head(updates)[1]
           state_update == Head(updates)[2]
           k == FindSpot(spots, spot_id)
       IN IF k = 0 THEN StoreUpdates(acc, spots, Tail(updates))
          ELSE LET space_id == spots[k].space_id
                   d1 == IF space_id \in DOMAIN acc.data THEN acc.data
                         ELSE Put(acc.data, space_id, EmptySpace)
                   d2 == [d1 EXCEPT ![space_id].spots = Put(@, spot_id, state_update)]
               IN StoreUpdates([data |-> d2, affected |-> acc.affected \cup {space_id}],
                               spots, Tail(updates))

\* state.py:88-89, one recalculation per affected space (each touches its own record)
RECURSIVE RecalculateAll(_, _, _)
RecalculateAll(data, spots, affected) ==
  IF affected = {} THEN data
  ELSE LET space_id == CHOOSE x \in affected : TRUE
       IN RecalculateAll(recalculate_space_stats(data, spots, space_id), spots,
                         affected \ {space_id})

\* state.py:65-91, the updater of update_multiple_spots
MultipleUpdater(data, spots, updates) ==
  LET r == StoreUpdates([data |-> data, affected |-> {}], spots, updates)
  IN RecalculateAll(r.data, spots, r.affected)

\* state.py:28-54, the updater of update_spot_state
SingleUpdater(data, spots, spot_id, state_update) ==
  LET k == FindSpot(spots, spot_id) IN
  IF k = 0 THEN data
  ELSE LET space_id == spots[k].space_id
           d1 == IF space_id \in DOMAIN data THEN data ELSE Put(data, space_id, EmptySpace)
           d2 == [d1 EXCEPT ![space_id].spots = Put(@, spot_id, state_update)]
       IN recalculate_space_stats(d2, spots, space_id)

\* state.py:168-177, the updater of initialize_space
InitializeUpdater(data, spots, space_id) ==
  IF space_id \in DOMAIN data THEN data
  ELSE recalculate_space_stats(Put(data, space_id, EmptySpace), spots, space_id)

\* a publish loop without the per-subscriber try/except: the first exception
\* ends the loop and reaches the caller
RECURSIVE notify_state_change_abort(_, _, _, _)
notify_state_change_abort(callbacks, raising, event, acc) ==
  IF callbacks = <<>> THEN acc
  ELSE IF Head(callbacks) \in raising
  THEN [acc EXCEPT !.called = Append(@, <<Head(callbacks), event>>), !.escaped = TRUE]
  ELSE notify_state_change_abort(Tail(callbacks), raising, event,
          [acc EXCEPT !.called = Append(@, <<Head(callbacks), event>>)])

\* state.py:196-202; raising is the set of callbacks that raise when called
RECURSIVE notify_state_change(_, _, _, _)
notify_state_change(callbacks, raising, event, acc) ==
  IF callbacks = <<>> THEN acc
  ELSE notify_state_change(Tail(callbacks), raising, event,
          [acc EXCEPT !.called = Append(@, <<Head(callbacks), event>>),
                      !.logged = IF Head(callbacks) \in raising
                                 THEN Append(@, Head(callbacks)) ELSE @])

NoNotify == [called |-> <<>>, logged |-> <<>>, escaped |-> FALSE]
CallResult(op, keys, raising, result) ==
  [op |-> op, keys |-> keys, raising |-> raising, result |-> result]
Keys(updates) == {updates[k][1] : k \in DOMAIN updates}

\* state.py:63-95 with json_store.py:103-125: the update of state.json under the
\* lock (a lock timeout or a failing store read ends the call before the
\* write), then the notification
update_multiple_spots(updates, store_ok, raising) ==
  /\ IF ~store_ok
     THEN /\ update_result' = CallResult("update_multiple_spots", Keys(updates), raising,
                                         "TimeoutError")
          /\ delivered' = <<>>
          /\ UNCHANGED state_file
     ELSE LET nt == notify_state_change(event_callbacks, raising,
                       <<"bulk_update", Len(updates)>>, NoNotify)
          IN /\ state_file' = MultipleUpdater(state_file, spots_file, updates)
             /\ delivered' = nt.called
             /\ update_result' = CallResult("update_multiple_spots", Keys(updates), raising,
                                    IF nt.escaped THEN "Exception" ELSE "ok")
  /\ UNCHANGED event_callbacks

\* state.py:20-61
update_spot_state(spot_id, state_update, store_ok, raising) ==
  /\ IF ~store_ok
     THEN /\ update_result' = CallResult("update_spot_state", {spot_id}, raising, "TimeoutError")
          /\ delivered' = <<>>
          /\ UNCHANGED state_file
     ELSE LET nt == notify_state_change(event_callbacks, raising,
                       <<"spot_update", spot_id>>, NoNotify)
          IN /\ state_file' = SingleUpdater(state_file, spots_file, spot_id, state_update)
             /\ delivered' = nt.called
             /\ update_result' = CallResult("update_spot_state", {spot_id}, raising,
                                    IF nt.escaped THEN "Exception" ELSE "ok")
  /\ UNCHANGED event_callbacks

\* state.py:192-194
register_event_callback ==
  /\ Len(event_callbacks) < Len(Subscribers)
  /\ event_callbacks' = Append(event_callbacks, Subscribers[Len(event_callbacks) + 1])
  /\ update_result' = NoCall
  /\ UNCHANGED <<state_file, delivered>>

\* state.py:182-190
remove_space(space_id) ==
  /\ space_id \in DOMAIN state_file
  /\ state_file' = Del(state_file, space_id)
  /\ update_result' = NoCall
  /\ UNCHANGED <<event_callbacks, delivered>>

\* spots.py:70-109: the space must exist; the new spot is stored, then
\* initialize_space
spot_created(space_id, spot_type) ==
  /\ FindSpace(spaces_file, space_id) # 0
  /\ uuid_count < MaxSpots
  /\ uuid_count' = uuid_count + 1
  /\ spots_file' = Append(spots_file, [id |-> uuid_count + 1, space_id |-> space_id,
                                       type |-> spot_type])
  /\ state_file' = InitializeUpdater(state_file, spots_file', space_id)
  /\ update_result' = NoCall
  /\ UNCHANGED <<event_callbacks, delivered>>

\* spots.py:123-155: the type of a stored spot is changed, then initialize_space
spot_updated(spot_id, spot_type) ==
  LET k == FindSpot(spots_file, spot_id) IN
  /\ k # 0
  /\ spots_file[k].type # spot_type
  /\ spots_file' = [spots_file EXCEPT ![k].type = spot_type]
  /\ state_file' = InitializeUpdater(state_file, spots_file', spots_file[k].space_id)
  /\ update_result' = NoCall
  /\ UNCHANGED <<uuid_count, event_callbacks, delivered>>

\* spots.py:168-181: the spot is removed, then initialize_space
spot_deleted(spot_id) ==
  LET k == FindSpot(spots_file, spot_id) IN
  /\ k # 0
  /\ spots_file' = SelectSeq(spots_file, LAMBDA sp : sp.id # spot_id)
  /\ state_file' = InitializeUpdater(state_file, spots_file', spots_file[k].space_id)
  /\ update_result' = NoCall
  /\ UNCHANGED <<uuid_count, event_callbacks, delivered>>

\* ---- the StateManager over a spot store that handlers edit between updates
SpotKeys == 1..(MaxSpots + 1)                 \* MaxSpots + 1 is never a stored spot
UpdateDicts(maxlen) ==
  {u \in UNION {[1..n -> SpotKeys \X ChangeRecords] : n \in 0..maxlen} :
     \A i, j \in DOMAIN u : i # j => u[i][1] # u[j][1]}
RaisingSets == SUBSET {Subscribers[k] : k \in DOMAIN Subscribers}

UpdateMultipleSpots(Updates, Oks, Raisings) ==
  \E updates \in Updates, store_ok \in Oks, raising \in Raisings :
     /\ update_multiple_spots(updates, store_ok, raising)
     /\ UNCHANGED <<occVars, sessionVars, storeVars, handlerVars, historyVars, clusterVars, lockVars>>
UpdateSpotState(Values, Oks, Raisings) ==
  \E spot_id \in SpotKeys, state_update \in Values :
    \E store_ok \in Oks, raising \in Raisings :
       /\ update_spot_state(spot_id, state_update, store_ok, raising)
       /\ UNCHANGED <<occVars, sessionVars, storeVars, handlerVars, historyVars, clusterVars, lockVars>>
RegisterEventCallback ==
  /\ register_event_callback
  /\ UNCHANGED <<occVars, markupVars, historyVars, clusterVars, lockVars>>
RemoveSpace ==
  \E space_id \in SpaceIds :
     /\ remove_space(space_id)
     /\ UNCHANGED <<occVars, markupVars, historyVars, clusterVars, lockVars>>
SpotCreated ==
  \E space_id \in SpaceIds, spot_type \in SpotTypes :
     /\ spot_created(space_id, spot_type)
     /\ UNCHANGED <<occVars, sessionVars, spaces_file, req, requests, historyVars, clusterVars, lockVars>>
SpotUpdated ==
  \E spot_id \in SpotKeys, spot_type \in SpotTypes :
     /\ spot_updated(spot_id, spot_type)
     /\ UNCHANGED <<occVars, sessionVars, spaces_file, req, requests, historyVars, clusterVars, lockVars>>
SpotDeleted ==
  \E spot_id \in SpotKeys :
     /\ spot_deleted(spot_id)
     /\ UNCHANGED <<occVars, sessionVars, spaces_file, req, requests, historyVars, clusterVars, lockVars>>

\* two spaces, no spot, an empty state.json
InitState ==
  /\ InitIdleTracker /\ InitAux
  /\ sessions = EmptyDict /\ task = NoTask
  /\ cancel_called = FALSE /\ cancel_hit = FALSE
  /\ spots_file = <<>>
  /\ spaces_file = <<NewSpace, [NewSpace EXCEPT !.id = "space_2"]>>
  /\ req = [h \in Handlers |-> IdleReq]
  /\ uuid_count = 0 /\ requests = 0
NextState ==
  \/ UpdateMultipleSpots(UpdateDicts(MaxBatch), BOOLEAN, {{}})
  \/ UpdateSpotState(StateUpdates, BOOLEAN, {{}}) \/ RemoveSpace
  \/ SpotCreated \/ SpotUpdated \/ SpotDeleted
SpecState == InitState /\ [][NextState]_vars

\* ---- the same with subscribers, some of which raise when they are called
NextNotify ==
  \/ UpdateMultipleSpots(UpdateDicts(1), BOOLEAN, RaisingSets)
  \/ UpdateSpotState(ChangeRecords, BOOLEAN, RaisingSets)
  \/ RegisterEventCallback \/ SpotCreated
SpecNotify == InitState /\ [][NextNotify]_vars

\* ---- StateManager calls of concurrent threads (state.py:56-61, 93-95, 179-180)

MaxCalls == 2                                 \* StateManager calls begun in one behaviour
Notifying == {"update_multiple_spots", "update_spot_state"}
\* the calls and their arguments: spot 1 is stored, space_2 has no state record
CallChoices ==
  {<<"update_multiple_spots", <<<<1, [occupied |-> TRUE, sequential_number |-> Some(1)]>>>>>>,
   <<"update_spot_state", <<1, [occupied |-> FALSE, sequential_number |-> None]>>>>,
   <<"initialize_space", "space_2">>}

Journal(t, event) == Append(journal, <<t, callers[t].op, event>>)
CallsBegun == Len(SelectSeq(journal, LAMBDA e : e[3] = "call"))

\* a thread enters one of the three methods
call_begin(t, op, arg) ==
  /\ callers[t].pc = "idle"
  /\ CallsBegun < MaxCalls
  /\ callers' = [callers EXCEPT ![t] = [pc |-> "acquire", op |-> op, arg |-> arg, data |-> <<>>]]
  /\ journal' = Append(journal, <<t, op, "call">>)
  /\ UNCHANGED <<state_lock, state_file, event_callbacks, delivered, update_result>>

\* a thread that goes on without the lock
acquire_noWait(t) ==
  /\ callers[t].pc = "acquire"
  /\ state_lock' = Some(t)
  /\ callers' = [callers EXCEPT ![t].pc = "load"]
  /\ UNCHANGED <<journal, state_file, event_callbacks, delivered, update_result>>

\* `with self.lock:` (state.py:56, 93, 179), threading.Lock: the thread waits
\* until no thread holds the lock
acquire(t) ==
  /\ callers[t].pc = "acquire"
  /\ state_lock = None
  /\ state_lock' = Some(t)
  /\ callers' = [callers EXCEPT ![t].pc = "load"]
  /\ UNCHANGED <<journal, state_file, event_callbacks, delivered, update_result>>

\* json_store.py:108-109, the file lock and json.load; on a lock timeout the
\* TimeoutError (json_store.py:122-125) leaves the `with self.lock` block
store_load(t, store_ok) ==
  /\ callers[t].pc = "load"
  /\ IF store_ok
     THEN /\ callers' = [callers EXCEPT ![t].pc = "dump", ![t].data = Some(state_file)]
          /\ journal' = Journal(t, "load")
          /\ UNCHANGED state_lock
     ELSE /\ callers' = [callers EXCEPT ![t] = NoCaller]
          /\ journal' = Journal(t, "failed")
          /\ state_lock' = IF state_lock = Some(t) THEN None ELSE state_lock
  /\ UNCHANGED <<state_file, event_callbacks, delivered, update_result>>

\* json_store.py:110-113, the updater on the loaded data and json.dump
store_dump(t) ==
  LET c == callers[t]
      data == c.data[1]
  IN /\ c.pc = "dump"
     /\ state_file' =
          IF c.op = "update_multiple_spots" THEN MultipleUpdater(data, spots_file, c.arg)
          ELSE IF c.op = "update_spot_state"
               THEN SingleUpdater(data, spots_file, c.arg[1], c.arg[2])
          ELSE InitializeUpdater(data, spots_file, c.arg)
     /\ callers' = [callers EXCEPT ![t].pc = IF c.op \in Notifying THEN "notify" ELSE "release"]
     /\ journal' = Journal(t, "dump")
     /\ UNCHANGED <<state_lock, event_callbacks, delivered, update_result>>

\* state.py:57-60 and 95, _notify_state_change inside the `with` block
notify(t) ==
  LET c == callers[t]
      event == IF c.op = "update_multiple_spots" THEN <<"bulk_update", Len(c.arg)>>
               ELSE <<"spot_update", c.arg[1]>>
  IN /\ c.pc = "notify"
     /\ delivered' = notify_state_change(event_callbacks, {}, event, NoNotify).called
     /\ callers' = [callers EXCEPT ![t].pc = "release"]
     /\ journal' = Journal(t, "notify")
     /\ UNCHANGED <<state_lock, state_file, event_callbacks, update_result>>

\* the end of the `with self.lock` block
release(t) ==
  /\ callers[t].pc = "release"
  /\ state_lock' = IF state_lock = Some(t) THEN None ELSE state_lock
  /\ callers' = [callers EXCEPT ![t] = NoCaller]
  /\ UNCHANGED <<journal, state_file, event_callbacks, delivered, update_result>>

LockRest == <<occVars, markupVars, historyVars, clusterVars>>
CallBegin ==
  \E t \in Callers, c \in CallChoices : call_begin(t, c[1], c[2]) /\ UNCHANGED LockRest
Acquire == \E t \in Callers : acquire(t) /\ UNCHANGED LockRest
StoreLoad == \E t \in Callers, store_ok \in BOOLEAN : store_load(t, store_ok) /\ UNCHANGED LockRest
StoreDump == \E t \in Callers : store_dump(t) /\ UNCHANGED LockRest
Notify == \E t \in Callers : notify(t) /\ UNCHANGED LockRest
Release == \E t \in Callers : release(t) /\ UNCHANGED LockRest

\* a parking spot of space_1 with its state record, and one subscriber
InitLock ==
  /\ InitIdleTracker /\ InitHistory /\ InitNoWindow
  /\ sessions = EmptyDict /\ task = NoTask
  /\ cancel_called = FALSE /\ cancel_hit = FALSE
  /\ spots_file = <<[id |-> 1, space_id |-> SpaceId, type |-> "parking"]>>
  /\ spaces_file = <<NewSpace, [NewSpace EXCEPT !.id = "space_2"]>>
  /\ req = [h \in Handlers |-> IdleReq]
  /\ uuid_count = 1 /\ requests = 0
  /\ state_file = (SpaceId :> [EmptySpace EXCEPT !.total_spots = 1, !.free_spots = 1])
  /\ event_callbacks = <<Subscribers[1]>>
  /\ delivered = <<>>
  /\ update_result = NoCall
  /\ InitNoCaller
NextLock == CallBegin \/ Acquire \/ StoreLoad \/ StoreDump \/ Notify \/ Release
SpecLock == InitLock /\ [][NextLock]_vars

\* ======================================== the detection loop (app.py:234-302)

MaxCycles == 7                                \* detection cycles in one behaviour
SpaceSpots == <<"A", "B", "C">>               \* the parking spots of the space
ScenarioPresence == [A |-> TRUE, B |-> FALSE, C |-> TRUE]
Presences == [{"A", "B", "C"} -> BOOLEAN]

\* app.py:251-267: the 'parking' spots of spaces that have a camera, in the
\* order of spots.json
MonitoredSpots(spots, spaces) ==
  SelectSeq(spots, LAMBDA sp :
     /\ sp.type = "parking"
     /\ FindSpace(spaces, sp.space_id) # 0
     /\ spaces[FindSpace(spaces, sp.space_id)].camera_ids # <<>>)

\* app.py:271-285 and detector.py:305-319: one entry per ROI
RoiDetections(space_spots, presence) ==
  [k \in DOMAIN space_spots |-> <<space_spots[k].id, presence[space_spots[k].id]>>]

\* changes handed on with only their first entry
RECURSIVE ChangeUpdates_firstOnly(_, _)
ChangeUpdates_firstOnly(detections, chg) ==
  IF detections = <<>> THEN <<>>
  ELSE IF Head(detections)[1] \in DOMAIN chg
       THEN <<<<Head(detections)[1], chg[Head(detections)[1]]>>>>
       ELSE ChangeUpdates_firstOnly(Tail(detections), chg)

\* app.py:289-293: the changes dict, whose items are in the order of the detections
RECURSIVE ChangeUpdates(_, _)
ChangeUpdates(detections, chg) ==
  IF detections = <<>> THEN <<>>
  ELSE IF Head(detections)[1] \in DOMAIN chg
       THEN <<<<Head(detections)[1], chg[Head(detections)[1]]>>>>
            \o ChangeUpdates(Tail(detections), chg)
       ELSE ChangeUpdates(Tail(detections), chg)

\* app.py:241-302, one pass of the loop, one minute after the previous one:
\* the frame, the detections of every monitored spot, the tracker, and the
\* state update when something changed (an exception of the update is logged
\* by the loop, app.py:300-302)
detection_cycle(frame, presence, store_ok) ==
  LET detections == IF frame
                    THEN RoiDetections(MonitoredSpots(spots_file, spaces_file), presence)
                    ELSE <<>>
      r == ProcessDetections(TrackerState, detections, now + TickSeconds,
                             ThresholdSeconds(occupancy_minutes))
  IN /\ now + TickSeconds <= MaxCycles * TickSeconds
     /\ now' = now + TickSeconds
     /\ steady' = IF steady >= 0 /\ frame /\ presence = ScenarioPresence
                  THEN steady + 1 ELSE -1
     /\ IF detections = <<>>
        THEN UNCHANGED <<spot_timers, spot_states, sequential_numbers, next_sequential,
                         changes, issued, occupancy_minutes, stateMgrVars>>
        ELSE /\ update_detections(detections, now + TickSeconds)
             /\ IF DOMAIN r.changes = {}
                THEN UNCHANGED stateMgrVars
                ELSE update_multiple_spots(ChangeUpdates(detections, r.changes), store_ok, {})
     /\ UNCHANGED <<streak, single_false, geometry, sampled, markupVars, clusterVars, lockVars>>

DetectionCycle ==
  \E frame, store_ok \in BOOLEAN, presence \in Presences :
     detection_cycle(frame, presence, store_ok)

\* the three parking spots of space_1 as create_spot stored them; the state
\* record of the space is the one initialize_space made for the first spot
InitCycle ==
  /\ InitIdleTracker /\ InitHistory /\ InitNoSubscriber /\ InitNoWindow
  /\ spots_file = [k \in DOMAIN SpaceSpots |->
                     [id |-> SpaceSpots[k], space_id |-> SpaceId, type |-> "parking"]]
  /\ spaces_file = <<NewSpace>>
  /\ state_file = (SpaceId :> [EmptySpace EXCEPT !.total_spots = 1, !.free_spots = 1])
  /\ sessions = EmptyDict /\ task = NoTask
  /\ cancel_called = FALSE /\ cancel_hit = FALSE
  /\ req = [h \in Handlers |-> IdleReq]
  /\ uuid_count = 0 /\ requests = 0
NextCycle == DetectionCycle
SpecCycle == InitCycle /\ [][NextCycle]_vars

\* =========================================================== VehicleTracker

MaxWindow == 4                                \* detections in the sample window
TimeChoices == {0, 15, 30}                    \* timestamps of the samples
StabilityChoices == {15, 30}                  \* stability_seconds of the tracker
\* boxes (x1, y1, x2, y2): three in a row, each shifted by 3 (IoU exactly 0.70
\* with its neighbour, 11/23 with the next but one)
BoxPool == {<<0, 0, 17, 1>>, <<3, 0, 20, 1>>, <<6, 0, 23, 1>>}

Max2(a, b) == IF a >= b THEN a ELSE b
Min2(a, b) == IF a <= b THEN a ELSE b

\* auto_markup.py:164-189; the quotient intersection / union is kept as the
\* pair <<intersection, union>>, 0.0 is <<0, 1>>
calculate_iou(bbox1, bbox2) ==
  LET x1_inter == Max2(bbox1[1], bbox2[1])
      y1_inter == Max2(bbox1[2], bbox2[2])
      x2_inter == Min2(bbox1[3], bbox2[3])
      y2_inter == Min2(bbox1[4], bbox2[4])
      intersection == (x2_inter - x1_inter) * (y2_inter - y1_inter)
      area1 == (bbox1[3] - bbox1[1]) * (bbox1[4] - bbox1[2])
      area2 == (bbox2[3] - bbox2[1]) * (bbox2[4] - bbox2[2])
      union == area1 + area2 - intersection
  IN IF x2_inter < x1_inter \/ y2_inter < y1_inter THEN <<0, 1>>
     ELSE IF union = 0 THEN <<0, 1>>
     ELSE <<intersection, union>>

\* a similarity test that needs more than 0.70
Similar_strict(bbox1, bbox2) ==
  LET iou == calculate_iou(bbox1, bbox2) IN 10 * iou[1] > 7 * iou[2]

\* auto_markup.py:120-121, iou >= 0.7
Similar(bbox1, bbox2) ==
  LET iou == calculate_iou(bbox1, bbox2) IN 10 * iou[1] >= 7 * iou[2]

\* auto_markup.py:101, sorted(detections, key=lambda x: x[0]): a stable sort
RECURSIVE SortByTime(_)
SortByTime(detections) ==
  IF detections = <<>> THEN <<>>
  ELSE LET n == Len(detections)
           x == detections[n]
           q == SortByTime(SubSeq(detections, 1, n - 1))
       IN SelectSeq(q, LAMBDA e : e[1] <= x[1]) \o <<x>>
          \o SelectSeq(q, LAMBDA e : e[1] > x[1])

\* the positions of dets in increasing order that are in the set members
Ascending(dets, members) ==
  SelectSeq([k \in DOMAIN dets |-> k], LAMBDA j : j \in members)

\* a grouping that also absorbs what is similar to a member already absorbed
RECURSIVE BuildGroups_chained(_, _, _, _)
BuildGroups_chained(dets, i, used, acc) ==
  IF i > Len(dets) THEN acc
  ELSE IF i \in used THEN BuildGroups_chained(dets, i + 1, used, acc)
  ELSE LET direct == {j \in DOMAIN dets \ (used \cup {i}) : Similar(dets[i][2], dets[j][2])}
           members == direct \cup
              {j \in DOMAIN dets \ (used \cup {i}) :
                 \E m \in direct : Similar(dets[m][2], dets[j][2])}
       IN BuildGroups_chained(dets, i + 1, used \cup {i} \cup members,
                              Append(acc, <<i>> \o Ascending(dets, members)))

\* auto_markup.py:103-125: the loop over the sorted detections; a group is the
\* seed i followed by every unused j whose box is similar to the seed's box
RECURSIVE BuildGroups(_, _, _, _)
BuildGroups(dets, i, used, acc) ==
  IF i > Len(dets) THEN acc
  ELSE IF i \in used THEN BuildGroups(dets, i + 1, used, acc)
  ELSE LET members == {j \in DOMAIN dets \ (used \cup {i}) :
                          Similar(dets[i][2], dets[j][2])}
       IN BuildGroups(dets, i + 1, used \cup {i} \cup members,
                      Append(acc, <<i>> \o Ascending(dets, members)))

SetMax(S) == CHOOSE x \in S : \A y \in S : y <= x
SetMin(S) == CHOOSE x \in S : \A y \in S : x <= y
RECURSIVE SeqSum(_)
SeqSum(q) == IF q = <<>> THEN 0 ELSE Head(q) + SeqSum(Tail(q))

\* auto_markup.py:191-197, int(np.mean(...)) of each coordinate
average_bboxes(bboxes) ==
  [c \in 1..4 |-> SeqSum([k \in DOMAIN bboxes |-> bboxes[k][c]]) \div Len(bboxes)]

\* a time-span test that is content with half of stability_seconds
SpanReached_half(time_span, stability) == 2 * time_span >= stability

\* auto_markup.py:140, the negation of `time_span < self.stability_seconds`
SpanReached(time_span, stability) == time_span >= stability

\* auto_markup.py:149, min(1.0, time_span / stability_seconds) as the pair
\* <<numerator, denominator>>; 1.0 is <<1, 1>>
StabilityScore(time_span, stability) ==
  IF time_span >= stability THEN <<1, 1>> ELSE <<time_span, stability>>

\* a clusterer that does not ask how long a group was seen
RECURSIVE ToStableVehicles_keepShort(_, _, _)
ToStableVehicles_keepShort(dets, grps, stability) ==
  IF grps = <<>> THEN <<>>
  ELSE LET group == Head(grps)
           timestamps == {dets[group[k]][1] : k \in DOMAIN group}
           time_span == SetMax(timestamps) - SetMin(timestamps)
           rest == ToStableVehicles_keepShort(dets, Tail(grps), stability)
       IN IF Len(group) < 2 THEN rest
          ELSE <<[bbox |-> average_bboxes([k \in DOMAIN group |-> dets[group[k]][2]]),
                  stability_score |-> StabilityScore(time_span, stability),
                  detections_count |-> Len(group),
                  first_seen |-> SetMin(timestamps),
                  last_seen |-> SetMax(timestamps)]>> \o rest

\* auto_markup.py:131-160, the groups that become StableVehicles
RECURSIVE ToStableVehicles(_, _, _)
ToStableVehicles(dets, grps, stability) ==
  IF grps = <<>> THEN <<>>
  ELSE LET group == Head(grps)
           timestamps == {dets[group[k]][1] : k \in DOMAIN group}
           time_span == SetMax(timestamps) - SetMin(timestamps)
           rest == ToStableVehicles(dets, Tail(grps), stability)
       IN IF Len(group) < 2 THEN rest
          ELSE IF ~SpanReached(time_span, stability) THEN rest
          ELSE <<[bbox |-> average_bboxes([k \in DOMAIN group |-> dets[group[k]][2]]),
                  stability_score |-> StabilityScore(time_span, stability),
                  detections_count |-> Len(group),
                  first_seen |-> SetMin(timestamps),
                  last_seen |-> SetMax(timestamps)]>> \o rest

\* auto_markup.py:95-162 as get_stable_vehicles calls it (auto_markup.py:81-93)
\* on the detections of the window
group_stable_detections ==
  LET detections == SortByTime(window)
      grps == BuildGroups(detections, 1, {}, <<>>)
  IN /\ window # <<>>
     /\ groups = <<>>
     /\ groups' = grps
     /\ stable' = ToStableVehicles(detections, grps, stability_seconds)
     /\ UNCHANGED <<detections_history, window, stability_seconds>>

GroupStableDetections ==
  /\ group_stable_detections
  /\ UNCHANGED <<occVars, markupVars, historyVars, stateMgrVars>>

\* the window holds any detections, in any order
Windows == UNION {[1..n -> TimeChoices \X BoxPool] : n \in 0..MaxWindow}
InitCluster ==
  /\ InitIdleTracker /\ InitMarkupIdle /\ InitHistory /\ InitNoSubscriber
  /\ state_file = EmptyDict
  /\ detections_history = EmptyDict
  /\ window \in Windows
  /\ stability_seconds \in StabilityChoices
  /\ groups = <<>>
  /\ stable = <<>>
NextCluster == GroupStableDetections
SpecCluster == InitCluster /\ [][NextCluster]_vars

\* ============================ the sample history (auto_markup.py:47-93)

MaxHistory == 3                               \* samples retained by a tracker, all cameras
Cameras == {"cam_1", "cam_2"}
\* what the detector reports for a frame: nothing, a vehicle, two vehicles apart
FrameDetections == {<<>>, <<<<0, 0, 17, 1>>>>, <<<<0, 0, 17, 1>>, <<6, 0, 23, 1>>>>}
\* api/auto_markup.py:34 takes any integer
HistoryStabilities == {-30, 0, 30, 90}
ZeroDivision == "ZeroDivisionError"           \* auto_markup.py:149 with stability_seconds = 0
\* how a call ended: with a value or with an exception
Returned(value) == <<"returned", value>>
Raised(exception) == <<"raised", exception>>

RECURSIVE SamplesHeld(_, _)
SamplesHeld(history, cams) ==
  IF cams = {} THEN 0
  ELSE LET c == CHOOSE x \in cams : TRUE
       IN Len(history[c]) + SamplesHeld(history, cams \ {c})

\* a pruning that keeps only what is newer than the cutoff
add_frame_detections_strict(camera_id, detections) ==
  LET current_time == now
      appended == Append(Get(detections_history, camera_id, <<>>), <<current_time, detections>>)
      cutoff_time == current_time - stability_seconds * 2
  IN detections_history' =
        Put(detections_history, camera_id, SelectSeq(appended, LAMBDA e : e[1] > cutoff_time))

\* auto_markup.py:52-68
add_frame_detections(camera_id, detections) ==
  LET current_time == now
      appended == Append(Get(detections_history, camera_id, <<>>), <<current_time, detections>>)
      cutoff_time == current_time - stability_seconds * 2
  IN detections_history' =
        Put(detections_history, camera_id, SelectSeq(appended, LAMBDA e : e[1] >= cutoff_time))

\* auto_markup.py:80-83, the (timestamp, det) pairs of the samples in order
RECURSIVE Flatten(_)
Flatten(history) ==
  IF history = <<>> THEN <<>>
  ELSE LET timestamp == Head(history)[1]
           detections == Head(history)[2]
       IN [k \in DOMAIN detections |-> <<timestamp, detections[k]>>] \o Flatten(Tail(history))

\* auto_markup.py:149, the division raises when stability_seconds is 0 and a
\* group passed the tests of lines 132 and 140
ScoreRaises(dets, grps, stability) ==
  /\ stability = 0
  /\ \E g \in DOMAIN grps :
        LET timestamps == {dets[grps[g][k]][1] : k \in DOMAIN grps[g]}
        IN Len(grps[g]) >= 2 /\ SpanReached(SetMax(timestamps) - SetMin(timestamps), stability)

\* auto_markup.py:70-93; the call is recorded with what it returned or raised
get_stable_vehicles(camera_id) ==
  LET history == Get(detections_history, camera_id, <<>>)
      all_detections == Flatten(history)
      detections == SortByTime(all_detections)
      grps == BuildGroups(detections, 1, {}, <<>>)
      returns(w, g, result) ==
        /\ window' = w
        /\ groups' = g
        /\ stable' = result
        /\ geometry' = GeometryCall("get_stable_vehicles", <<camera_id>>, Returned(result))
  IN /\ IF camera_id \notin DOMAIN detections_history THEN returns(<<>>, <<>>, <<>>)
        ELSE IF Len(history) < 2 THEN returns(<<>>, <<>>, <<>>)
        ELSE IF all_detections = <<>> THEN returns(<<>>, <<>>, <<>>)
        ELSE IF ScoreRaises(detections, grps, stability_seconds)
        THEN /\ window' = all_detections
             /\ groups' = grps
             /\ stable' = <<>>
             /\ geometry' = GeometryCall("get_stable_vehicles", <<camera_id>>, Raised(ZeroDivision))
        ELSE returns(all_detections, grps,
                     ToStableVehicles(detections, grps, stability_seconds))
     /\ UNCHANGED <<detections_history, stability_seconds>>

HistoryRest == <<occVars, markupVars, single_false, steady, sampled, stateMgrVars>>

AddFrameDetections ==
  \E camera_id \in Cameras, detections \in FrameDetections :
     /\ SamplesHeld(detections_history, DOMAIN detections_history) < MaxHistory
     /\ add_frame_detections(camera_id, detections)
     /\ geometry' = GeometryCall("add_frame_detections", <<camera_id, detections>>,
                                 <<now, Len(Get(detections_history, camera_id, <<>>))>>)
     /\ window' = <<>> /\ groups' = <<>> /\ stable' = <<>>   \* no result is on record
     /\ UNCHANGED <<stability_seconds, HistoryRest>>
GetStableVehicles ==
  \E camera_id \in Cameras : get_stable_vehicles(camera_id) /\ UNCHANGED HistoryRest
HistoryTick ==
  /\ Tick
  /\ UNCHANGED <<markupVars, auxVars>>

\* auto_markup.py:47-49, a tracker as constructed
InitTrackerHistory ==
  /\ InitIdleTracker /\ InitMarkupIdle /\ InitHistory /\ InitNoSubscriber
  /\ state_file = EmptyDict
  /\ detections_history = EmptyDict
  /\ window = <<>>
  /\ stability_seconds \in HistoryStabilities
  /\ groups = <<>>
  /\ stable = <<>>
NextHistory == AddFrameDetections \/ GetStableVehicles \/ HistoryTick
SpecHistory == InitTrackerHistory /\ [][NextHistory]_vars

\* ---- an 'average' session sampling into its tracker (auto_markup.py:357-394);
\* time.time() at a sample is the tick time, the sleep is the only delay

MaxMisses == 1                   \* ticks of a session at which the vehicle is not sampled
\* api/auto_markup.py:34, the request's stability_seconds
AverageStabilities == {DefaultStability - 1, DefaultStability}
\* what the detector reports at a tick: nothing or the one parked vehicle
AverageDetections == {d \in FrameDetections : Len(d) <= 1}
\* auto_markup.py:265-271, the camera of the session's space
SessionCamera == NewSpace.camera_ids[1]
Sightings == Len(Flatten(Get(detections_history, SessionCamera, <<>>)))

\* auto_markup.py:372-383, the tick of analyze_sample with its tracker call
AverageSample ==
  \E frame, raises \in BOOLEAN, detections \in AverageDetections :
     /\ (frame /\ ~raises /\ detections # <<>>) \/ task.i - Sightings < MaxMisses
     /\ analyze_sample(frame, raises)
     /\ IF frame /\ ~raises THEN add_frame_detections(SessionCamera, detections)
        ELSE UNCHANGED detections_history
     /\ UNCHANGED <<occVars, historyVars, stateMgrVars, window, stability_seconds,
                    groups, stable>>
\* auto_markup.py:385, time.sleep(interval)
AverageSleep ==
  /\ analyze_sleep
  /\ now' = now + AverageInterval
  /\ UNCHANGED <<occupancy_minutes, spot_timers, spot_states, sequential_numbers,
                 next_sequential, changes, issued, streak, auxVars>>
\* auto_markup.py:387-394
AverageCollect ==
  /\ task.pc = "collect"
  /\ get_stable_vehicles(SessionCamera)
  /\ analyze_collect(stable')
  /\ UNCHANGED <<occVars, single_false, steady, sampled, stateMgrVars>>

InitAverage ==
  /\ InitIdleTracker /\ InitMarkupIdle /\ InitHistory /\ InitNoSubscriber
  /\ state_file = EmptyDict
  /\ detections_history = EmptyDict
  /\ window = <<>>
  /\ stability_seconds \in AverageStabilities
  /\ groups = <<>>
  /\ stable = <<>>
NextAverage ==
  \/ StartAnalysis({"average"}) \/ RunAnalysis \/ AnalyzeCheck \/ AverageSample
  \/ AverageSleep \/ AverageCollect \/ RunCompleted \/ RunExcept
SpecAverage == InitAverage /\ [][NextAverage]_vars

\* ================================== proposal geometry (auto_markup.py:496-566)

FrameWidth == 1920
FrameHeight == 1080
EdgeMargin == 10
MinSide == 50
TooCloseToEdge == "too_close_to_edge"        \* auto_markup.py:554, the reason text
OutOfFrame == "out_of_frame"                 \* auto_markup.py:558
TooSmall == "too_small"                      \* auto_markup.py:564

\* Python's int() of a quotient of integers: truncation towards zero
\* (auto_markup.py:517-518, int(detected_width * (standard_width / 100.0)); the
\* float product truncates to the same integer as the exact quotient for every
\* side up to the frame size and every percentage used here)
TruncDiv(n, d) == IF n >= 0 THEN n \div d ELSE -((-n) \div d)

Rect(x1, y1, x2, y2) == [x1 |-> x1, y1 |-> y1, x2 |-> x2, y2 |-> y2]

\* a margin applied from the top-left corner instead of around the centre
standardize_bbox_fromCorner(bbox, standard_width, standard_height) ==
  Rect(bbox[1], bbox[2],
       bbox[1] + TruncDiv((bbox[3] - bbox[1]) * standard_width, 100),
       bbox[2] + TruncDiv((bbox[4] - bbox[2]) * standard_height, 100))

\* auto_markup.py:496-535; // is floor division, which \div is
standardize_bbox(bbox, standard_width, standard_height) ==
  LET detected_width == bbox[3] - bbox[1]
      detected_height == bbox[4] - bbox[2]
      new_width == TruncDiv(detected_width * standard_width, 100)
      new_height == TruncDiv(detected_height * standard_height, 100)
      center_x == (bbox[1] + bbox[3]) \div 2
      center_y == (bbox[2] + bbox[4]) \div 2
  IN Rect(center_x - new_width \div 2, center_y - new_height \div 2,
          center_x + new_width \div 2, center_y + new_height \div 2)

\* the size rule tested before the edge rule
check_validity_sizeFirst(suggested_rect) ==
  LET r == suggested_rect
  IN IF r.x2 - r.x1 < MinSide \/ r.y2 - r.y1 < MinSide THEN <<FALSE, Some(TooSmall)>>
     ELSE IF \/ r.x1 < EdgeMargin \/ r.y1 < EdgeMargin
             \/ r.x2 > FrameWidth - EdgeMargin \/ r.y2 > FrameHeight - EdgeMargin
          THEN <<FALSE, Some(TooCloseToEdge)>>
     ELSE <<TRUE, None>>

\* auto_markup.py:537-566, (is_valid, exclude_reason); original_bbox is not read
check_validity(suggested_rect) ==
  LET r == suggested_rect
      width == r.x2 - r.x1
      height == r.y2 - r.y1
  IN IF \/ r.x1 < EdgeMargin \/ r.y1 < EdgeMargin
        \/ r.x2 > FrameWidth - EdgeMargin \/ r.y2 > FrameHeight - EdgeMargin
     THEN <<FALSE, Some(TooCloseToEdge)>>
     ELSE IF r.x1 < 0 \/ r.y1 < 0 \/ r.x2 > FrameWidth \/ r.y2 > FrameHeight
     THEN <<FALSE, Some(OutOfFrame)>>
     ELSE IF width < MinSide \/ height < MinSide
     THEN <<FALSE, Some(TooSmall)>>
     ELSE <<TRUE, None>>

\* vehicle boxes with even and odd sides, with sides that are and are not
\* multiples of 5
VehicleBoxes ==
  {<<x1, y1, x1 + w, y1 + h>> : x1 \in {100, 101}, y1 \in {200}, w \in {50, 55, 57}, h \in {60, 63}}
PercentChoices == {100, 120}                 \* api/auto_markup.py:32-33 takes any integer
\* rects around the edge margin and the minimal side; (5,5,40,40) is one of them
RectPool ==
  {Rect(x1, y1, x1 + w, y1 + h) :
     x1 \in {-5, 5, 9, 10, 1850}, y1 \in {5, 10, 1000}, w \in {35, 49, 50, 60, 61}, h \in {35, 50, 70, 71}}

StandardizeBbox ==
  \E bbox \in VehicleBoxes, standard_width, standard_height \in PercentChoices :
     /\ geometry' = GeometryCall("standardize_bbox", <<bbox, standard_width, standard_height>>,
                                 standardize_bbox(bbox, standard_width, standard_height))
     /\ UNCHANGED <<occVars, markupVars, single_false, steady, sampled, stateMgrVars, clusterVars>>
CheckValidity ==
  \E suggested_rect \in RectPool :
     /\ geometry' = GeometryCall("check_validity", <<suggested_rect>>,
                                 check_validity(suggested_rect))
     /\ UNCHANGED <<occVars, markupVars, single_false, steady, sampled, stateMgrVars, clusterVars>>

InitGeometry == InitIdleTracker /\ InitMarkupIdle /\ InitAux
NextProposalGeometry == StandardizeBbox \/ CheckValidity
SpecProposalGeometry == InitGeometry /\ [][NextProposalGeometry]_vars

\* ================================ presence in a ROI (detector.py:257-319)

\* detector.py:277-283, the intersection area, 0 when the rectangles are apart
IntersectionArea(bbox, roi) ==
  LET x1_inter == Max2(bbox[1], roi.x1)
      y1_inter == Max2(bbox[2], roi.y1)
      x2_inter == Min2(bbox[3], roi.x2)
      y2_inter == Min2(bbox[4], roi.y2)
  IN IF x2_inter < x1_inter \/ y2_inter < y1_inter THEN 0
     ELSE (x2_inter - x1_inter) * (y2_inter - y1_inter)

\* detector.py:257-291 with threshold 0.3: intersection_area / roi_area >= 0.3
\* is 10 * intersection_area >= 3 * roi_area
bbox_intersects_roi(bbox, roi) ==
  LET x2_inter == Min2(bbox[3], roi.x2)
      x1_inter == Max2(bbox[1], roi.x1)
      y2_inter == Min2(bbox[4], roi.y2)
      y1_inter == Max2(bbox[2], roi.y1)
      roi_area == (roi.x2 - roi.x1) * (roi.y2 - roi.y1)
  IN IF x2_inter < x1_inter \/ y2_inter < y1_inter THEN FALSE
     ELSE IF roi_area = 0 THEN FALSE
     ELSE 10 * IntersectionArea(bbox, roi) >= 3 * roi_area

\* detector.py:308-317, has_vehicle of one ROI
has_vehicle(detections, roi) ==
  \E k \in DOMAIN detections : bbox_intersects_roi(detections[k], roi)

\* vehicles smaller than, as large as and larger than the spots
DetectedBoxes ==
  {<<10, 10, 20, 20>>, <<0, 0, 100, 100>>, <<0, 0, 200, 200>>, <<70, 0, 170, 100>>,
   <<80, 0, 180, 100>>, <<100, 0, 200, 100>>, <<300, 300, 400, 400>>}
SpotRects == {Rect(0, 0, 100, 100), Rect(0, 0, 100, 50), Rect(50, 50, 50, 150)}
DetectionLists == UNION {[1..n -> DetectedBoxes] : n \in 0..MaxProposals}

GetDetectionsInRois ==
  \E detections \in DetectionLists, roi \in SpotRects :
     /\ geometry' = GeometryCall("get_detections_in_rois", <<detections, roi>>,
                                 has_vehicle(detections, roi))
     /\ UNCHANGED <<occVars, markupVars, single_false, steady, sampled, stateMgrVars, clusterVars>>

NextPresence == GetDetectionsInRois
SpecPresence == InitGeometry /\ [][NextPresence]_vars

\* ------------------------------------------------------------------ claims

\* C1: a session's status never leaves a terminal state: once it is
\* 'completed', 'error' or 'cancelled', no step of the background task and no
\* cancel_analysis call changes it to a different value.
C1_Original ==
  [][(SessionId \in DOMAIN sessions /\ TheSession.status \in Terminal)
       => sessions'[SessionId].status = TheSession.status]_vars

\* C2: after cancel_analysis has set an 'average' or 'duration' session that
\* was 'analyzing' to 'cancelled', the background task never assigns
\* session.proposals nor vehicles_found: both stay as they were.
C2_Original ==
  [][cancel_hit => /\ sessions'[SessionId].proposals = TheSession.proposals
                   /\ sessions'[SessionId].vehicles_found = TheSession.vehicles_found]_vars

\* C3: apply_proposals is rejected whenever the session is unknown or its
\* status is not 'completed', and in particular whenever cancel_analysis was
\* called on the session: the call ends with an error, and the stored spots
\* and spaces are unchanged.
C3_Original ==
  [][\A h \in Handlers :
       (/\ req[h].pc = "idle" /\ req'[h].op = "apply"
        /\ \/ SessionId \notin DOMAIN sessions
           \/ TheSession.status # "completed"
           \/ cancel_called)
       => (/\ req'[h].pc = "done" /\ req'[h].result \in {"ValueError", "TimeoutError"}
           /\ UNCHANGED storeVars)]_vars

InRange(approved_indices, n) ==
  SelectSeq(approved_indices, LAMBDA i : 0 <= i /\ i < n)
PastBuild(r) == r.op = "apply" /\ r.pc \in {"save_spots", "save_spaces"}
CounterOf(spaces) == Get(spaces[FindSpace(spaces, SpaceId)], "next_spot_number", 1)

\* C4: in apply_proposals every approved index that is not a position of the
\* proposal list (index < 0 or index >= len(proposals)) is skipped without
\* error and creates no spot; exactly the indices i with 0 <= i < len(proposals)
\* create a spot, built from proposals[i].
C4_Original ==
  \A h \in Handlers :
    LET r == req[h]
        ok == InRange(r.approved_indices, Len(TheSession.proposals)) IN
    /\ r.op = "apply" => r.result # "IndexError"
    /\ PastBuild(r) =>
         /\ Len(r.new_spots) = Len(ok)
         /\ \A k \in DOMAIN r.new_spots :
               r.new_spots[k].rect = TheSession.proposals[ok[k] + 1].suggested_rect

\* C5: with auto_number=true, a counter n and k approved indices in range, the
\* created spots get spot_number n .. n+k-1 in the order of approved_indices,
\* label label_prefix followed by the number, and the stored next_spot_number
\* becomes n+k; with auto_number=false the counter is left unchanged.
C5_Original ==
  \A h \in Handlers :
    LET r == req[h]
        k == Len(InRange(r.approved_indices, Len(TheSession.proposals)))
        n == CounterOf(r.spaces) IN
    /\ (PastBuild(r) /\ r.auto_number) =>
         /\ Len(r.new_spots) = k
         /\ \A j \in DOMAIN r.new_spots :
               /\ r.new_spots[j].spot_number = Some(n + j - 1)
               /\ r.new_spots[j].label = <<r.label_prefix, n + j - 1>>
    /\ (r.op = "apply" /\ r.pc = "done" /\ r.result = "ok") =>
         CounterOf(spaces_file) = IF r.auto_number THEN n + k ELSE n

NumbersOf(spots) == {spots[k].spot_number[1] : k \in {j \in DOMAIN spots : spots[j].spot_number # None}}
AllQuiet == \A h \in Handlers : req[h].pc \in {"idle", "done"}

\* C6: for every interleaving of two concurrent auto-numbering operations on
\* the same space, no two stored spots have the same spot_number, and the
\* final next_spot_number is greater than every assigned number.
C6_Original ==
  /\ \A i, j \in DOMAIN spots_file :
        (i # j /\ spots_file[i].spot_number # None)
          => spots_file[i].spot_number # spots_file[j].spot_number
  /\ AllQuiet => \A m \in NumbersOf(spots_file) : CounterOf(spaces_file) > m

BatchStored(r) ==
  /\ r.new_spots # <<>>
  /\ \A j \in DOMAIN r.new_spots :
        \E i \in DOMAIN spots_file : spots_file[i].id = r.new_spots[j].id

\* C7: apply_proposals makes no partial write: when it ends with an error the
\* store is as before the call, and otherwise the whole batch of new spots and
\* the advanced next_spot_number are both stored.
C7_Original ==
  \A h \in Handlers :
    LET r == req[h] IN
    (r.op = "apply" /\ r.pc = "done") =>
       /\ r.result # "ok" => ~BatchStored(r)
       /\ (r.auto_number /\ BatchStored(r)) =>
             CounterOf(spaces_file) = r.next_spot_number
Occupied(s) == Get(spot_states, s, FALSE)

\* C8: a spot has an entry in sequential_numbers if and only if its occupied
\* flag in spot_states is true, after any sequence of update_detections and
\* reset_spot calls.
C8_NumberIffOccupied ==
  \A s \in Spots : (s \in DOMAIN sequential_numbers) <=> Occupied(s)

\* one spot holds a number while another one has been occupied and released
C8_Witness ==
  \E s, t \in Spots :
     /\ s \in DOMAIN sequential_numbers /\ Occupied(s)
     /\ t \in DOMAIN spot_states /\ ~spot_states[t]
     /\ t \notin DOMAIN sequential_numbers
     /\ Len(issued) >= 2

\* C9: sequential numbers are strictly increasing in order of assignment and
\* never reused: each newly assigned number is greater than every number
\* assigned before, no two spots hold the same number at the same time, and
\* every number a spot holds is one that was issued.
C9_NumbersIncrease ==
  /\ \A i, j \in DOMAIN issued : i < j => issued[i] < issued[j]
  /\ \A s, t \in DOMAIN sequential_numbers :
        s # t => sequential_numbers[s] # sequential_numbers[t]
  /\ \A s \in DOMAIN sequential_numbers :
        /\ \E i \in DOMAIN issued : issued[i] = sequential_numbers[s]
        /\ sequential_numbers[s] < next_sequential

\* a number was released and both spots hold later, distinct numbers
C9_Witness ==
  /\ Len(issued) >= 3
  /\ DOMAIN sequential_numbers = Spots

\* C10 as stated: with occupancy_minutes = 5 and one sample per minute, the
\* spot is not occupied after consecutive true samples 1 to 4 and is occupied
\* after the 5th.
C10_Original ==
  \A s \in Spots :
     /\ streak[s] \in 1..4 => ~Occupied(s)
     /\ streak[s] = 5 => Occupied(s)

\* C10 as amended: with occupancy_minutes = 5 and one sample per minute from a
\* spot with no timer, the spot is not occupied after consecutive true samples
\* 1 to 5 and becomes occupied when the 6th is processed (the first sample only
\* starts the timer, so 5 minutes have elapsed at the 6th).
C10_SixthSample ==
  \A s \in Spots :
     /\ streak[s] \in 0..5 => ~Occupied(s)
     /\ streak[s] >= 6 => Occupied(s)

C10_Witness == \E s \in Spots : streak[s] = 6 /\ Occupied(s) /\ now = 6 * TickSeconds

SampleNo == now \div TickSeconds

\* C11: with occupancy_minutes = 5 and one sample per minute, when sample 3 is
\* the only false sample of a spot, that sample clears the timer, the timer
\* restarts at sample 4 (4 minutes), and the spot is not occupied before sample
\* 9 (5 full minutes after sample 4) and is occupied from sample 9 on.
C11_TimerRestarts ==
  \A s \in Spots :
     (single_false[s] = 3 /\ streak[s] = SampleNo - 3) =>
        /\ SampleNo = 3 => s \notin DOMAIN spot_timers
        /\ SampleNo >= 4 => /\ s \in DOMAIN spot_timers
                            /\ spot_timers[s] = 4 * TickSeconds
        /\ Occupied(s) <=> SampleNo >= 9

\* samples 1, 2 true, 3 false, 4 to 9 true: occupied at sample 9
C11_Witness ==
  \E s \in Spots :
     /\ single_false[s] = 3 /\ streak[s] = 6 /\ SampleNo = 9
     /\ Occupied(s) /\ spot_timers[s] = 4 * TickSeconds

\* C12: after every update_multiple_spots and update_spot_state call, whatever
\* subset of spots it updated, every space record of state.json has
\* total_spots = occupied_spots + free_spots, occupied_spots >= 0, free_spots >= 0.
C12_AggregateSum ==
  \A space_id \in DOMAIN state_file :
     LET rec == state_file[space_id] IN
     /\ rec.total_spots = rec.occupied_spots + rec.free_spots
     /\ rec.occupied_spots >= 0
     /\ rec.free_spots >= 0

\* after an update both spaces have a record: one counts an occupied parking
\* spot, the other holds no parking spot
C12_Witness ==
  /\ update_result.op = "update_multiple_spots" /\ update_result.result = "ok"
  /\ DOMAIN state_file = SpaceIds
  /\ \E space_id \in SpaceIds : state_file[space_id].occupied_spots = 1
  /\ \E space_id \in SpaceIds : state_file[space_id].total_spots = 0

ParkingOf(space_id) ==
  SelectSeq(spots_file, LAMBDA sp : sp.space_id = space_id /\ sp.type = "parking")
OccupiedIn(space_id) ==
  {k \in DOMAIN ParkingOf(space_id) :
     LET id == ParkingOf(space_id)[k].id
         stored == state_file[space_id].spots
     IN /\ id \in DOMAIN stored
        /\ "occupied" \in DOMAIN stored[id]
        /\ stored[id].occupied}
Owners(keys) == {spots_file[k].space_id : k \in {j \in DOMAIN spots_file : spots_file[j].id \in keys}}
Recounted(space_id) ==
  /\ space_id \in DOMAIN state_file
  /\ state_file[space_id].total_spots = Len(ParkingOf(space_id))
  /\ state_file[space_id].occupied_spots = Cardinality(OccupiedIn(space_id))

\* C13: after update_multiple_spots, for every space that owns at least one
\* updated spot, total_spots is the number of 'parking' spots stored for the
\* space and occupied_spots the number of those whose stored state is
\* occupied, whatever the aggregates were before the call.
C13_Recounted ==
  (update_result.op = "update_multiple_spots" /\ update_result.result = "ok")
     => \A space_id \in Owners(update_result.keys) : Recounted(space_id)

\* an update recounted one space while the aggregates of the other space, which
\* it did not touch, have drifted from the stored spots
C13_Witness ==
  /\ update_result.op = "update_multiple_spots" /\ update_result.result = "ok"
  /\ \E space_id \in Owners(update_result.keys) :
        Recounted(space_id) /\ state_file[space_id].occupied_spots = 1
  /\ \E space_id \in DOMAIN state_file \ Owners(update_result.keys) :
        ~Recounted(space_id)

UpdateCalls == {"update_multiple_spots", "update_spot_state"}
Committed(keys) ==
  \A k \in DOMAIN spots_file :
     spots_file[k].id \in keys =>
        /\ spots_file[k].space_id \in DOMAIN state_file
        /\ spots_file[k].id \in DOMAIN state_file[spots_file[k].space_id].spots

\* C14: a subscriber that raises never blocks a state update: when
\* update_multiple_spots or update_spot_state got its update of state.json
\* through, the call returns normally whichever subscribers raise, every
\* registered subscriber was called, in order, with the same event, and the
\* state change is stored.
C14_SubscribersIsolated ==
  (update_result.op \in UpdateCalls /\ update_result.result # "TimeoutError") =>
     /\ update_result.result = "ok"
     /\ Len(delivered) = Len(event_callbacks)
     /\ \A k \in DOMAIN delivered :
           /\ delivered[k][1] = event_callbacks[k]
           /\ delivered[k][2] = delivered[1][2]
     /\ Committed(update_result.keys)

\* the first of two subscribers raised; the second was still called and the
\* updated spot is in the state
C14_Witness ==
  /\ update_result.op = "update_multiple_spots" /\ update_result.result = "ok"
  /\ update_result.raising = {Subscribers[1]}
  /\ Len(event_callbacks) = 2 /\ Len(delivered) = 2
  /\ delivered[2] = <<Subscribers[2], <<"bulk_update", 1>>>>
  /\ Owners(update_result.keys) # {}

SpaceRecord == state_file[SpaceId]
StoredNumber(spot_id) ==
  IF spot_id \in DOMAIN SpaceRecord.spots
  THEN SpaceRecord.spots[spot_id].sequential_number ELSE None

Sorted == SortByTime(window)
GroupOf(i) == CHOOSE g \in DOMAIN groups : \E k \in DOMAIN groups[g] : groups[g][k] = i
Grouped == groups # <<>>
BoxAt(i) == Sorted[i][2]
\* the boxes' intersection over union is at least 0.70
IoU70(bbox1, bbox2) ==
  10 * calculate_iou(bbox1, bbox2)[1] >= 7 * calculate_iou(bbox1, bbox2)[2]

\* C16 as stated: any two detections of the window whose boxes have
\* IoU >= 0.70 with each other are in the same cluster.
C16_Original ==
  Grouped => \A i, j \in DOMAIN Sorted :
                IoU70(BoxAt(i), BoxAt(j)) => GroupOf(i) = GroupOf(j)

\* C16 as amended: a detection whose box has IoU >= 0.70 with the box of a
\* cluster's seed (the cluster's first detection in time order) is in that
\* cluster unless an earlier cluster took it; similarity to a non-seed member
\* does not pull a detection in.
C16_SimilarToSeedJoins ==
  Grouped => \A g \in DOMAIN groups : \A j \in DOMAIN Sorted :
                IoU70(BoxAt(groups[g][1]), BoxAt(j)) => GroupOf(j) <= g

\* the seed took its neighbour at IoU exactly 0.70; the neighbour's neighbour,
\* similar to the member but not to the seed, is in another cluster
C16_Witness ==
  /\ Grouped /\ Len(groups) = 2 /\ Len(groups[1]) = 2
  /\ \E i, j \in DOMAIN Sorted :
        /\ GroupOf(i) = 1 /\ GroupOf(j) = 2
        /\ IoU70(BoxAt(i), BoxAt(j))
        /\ calculate_iou(BoxAt(groups[1][1]), BoxAt(groups[1][2])) = <<14, 20>>

\* C17 as stated: two detections whose boxes have IoU < 0.70 with each other
\* are never in the same cluster.
C17_Original ==
  Grouped => \A i, j \in DOMAIN Sorted :
                (i # j /\ ~IoU70(BoxAt(i), BoxAt(j))) => GroupOf(i) # GroupOf(j)

\* C17 as amended: a detection whose box has IoU < 0.70 with the box of a
\* cluster's seed is never in that cluster: every member of a cluster is
\* similar to the seed, and every detection is in exactly one cluster.
C17_MembersSimilarToSeed ==
  Grouped =>
     /\ \A g \in DOMAIN groups : \A k \in 2..Len(groups[g]) :
           IoU70(BoxAt(groups[g][1]), BoxAt(groups[g][k]))
     /\ \A i \in DOMAIN Sorted :
           \E g \in DOMAIN groups : \E k \in DOMAIN groups[g] :
              /\ groups[g][k] = i
              /\ \A g2 \in DOMAIN groups : \A k2 \in DOMAIN groups[g2] :
                    groups[g2][k2] = i => (g2 = g /\ k2 = k)

\* one cluster of three: both members are similar to the seed and not to each other
C17_Witness ==
  /\ Grouped /\ Len(groups) = 1 /\ Len(groups[1]) = 3
  /\ ~IoU70(BoxAt(groups[1][2]), BoxAt(groups[1][3]))

SpanOf(g) ==
  LET timestamps == {Sorted[groups[g][k]][1] : k \in DOMAIN groups[g]}
  IN SetMax(timestamps) - SetMin(timestamps)
ReturnedWith(g, score) ==
  \E v \in DOMAIN stable :
     /\ stable[v].detections_count = Len(groups[g])
     /\ stable[v].last_seen - stable[v].first_seen = SpanOf(g)
     /\ stable[v].bbox = average_bboxes([k \in DOMAIN groups[g] |-> BoxAt(groups[g][k])])
     /\ stable[v].stability_score = score

\* C18 as stated: the stability score of a returned vehicle is
\* min(1, time_span / stability_seconds); a cluster whose span is exactly
\* stability_seconds is returned with score 1.0 and a cluster whose span is
\* half of stability_seconds is returned with score 0.5.
C18_Original ==
  Grouped => \A g \in DOMAIN groups :
     Len(groups[g]) >= 2 =>
        /\ SpanOf(g) = stability_seconds => ReturnedWith(g, <<1, 1>>)
        /\ 2 * SpanOf(g) = stability_seconds => ReturnedWith(g, <<SpanOf(g), stability_seconds>>)

\* C18 as amended: get_stable_vehicles returns a cluster only when it has two
\* or more detections and its span is at least stability_seconds, so every
\* returned vehicle has score min(1, span / stability_seconds) = 1.0; a cluster
\* whose span is exactly stability_seconds is returned with score 1.0, one
\* whose span is half of it is not returned.
C18_ReturnedScoreIsOne ==
  Grouped =>
     /\ \A v \in DOMAIN stable :
           /\ stable[v].stability_score = <<1, 1>>
           /\ stable[v].last_seen - stable[v].first_seen >= stability_seconds
     /\ \A g \in DOMAIN groups :
           Len(groups[g]) >= 2 =>
              /\ SpanOf(g) >= stability_seconds => ReturnedWith(g, <<1, 1>>)
              /\ SpanOf(g) < stability_seconds =>
                    \A score \in {<<1, 1>>, <<SpanOf(g), stability_seconds>>} :
                       ~ReturnedWith(g, score)
     /\ Len(stable) = Cardinality({g \in DOMAIN groups :
                         Len(groups[g]) >= 2 /\ SpanOf(g) >= stability_seconds})

\* one cluster spans exactly stability_seconds and is returned, another spans
\* half of it and is dropped
C18_Witness ==
  /\ Grouped /\ Len(stable) = 1 /\ stable[1].stability_score = <<1, 1>>
  /\ \E g, h \in DOMAIN groups :
        /\ Len(groups[g]) >= 2 /\ SpanOf(g) = stability_seconds
        /\ Len(groups[h]) >= 2 /\ 2 * SpanOf(h) = stability_seconds


\* ------------------------------------------------------------------- C19
\* C19 as stated: a missing frame is never an error. In every mode (single,
\* average, duration), when get_frame returns no frame at a sampling tick the
\* tick is skipped and the session does not move to status 'error' because
\* of it: no session is in status 'error' with the message of the exception
\* that is raised for a missing frame.
C19_Original ==
  \A sid \in DOMAIN sessions :
     ~(/\ sessions[sid].status = "error"
       /\ sessions[sid].error_message = Some(CameraNotAvailable))

C21_SingleProposals ==
  (/\ SessionId \in DOMAIN sessions
   /\ TheSession.mode = "single"
   /\ TheSession.status = "completed")
  => LET N == Len(task.detections)
     IN /\ Len(TheSession.proposals) = N
        /\ \A k \in 1..N :
              /\ TheSession.proposals[k].index = k - 1
              /\ TheSession.proposals[k].bbox = task.detections[k]
              /\ TheSession.proposals[k].stability_score = <<1, 1>>
        /\ TheSession.progress = 100
        /\ TheSession.frames_analyzed = 1
        /\ TheSession.vehicles_found = N

\* a completed 'single' session on a frame with two different detections
C21_Witness ==
  /\ SessionId \in DOMAIN sessions
  /\ TheSession.mode = "single" /\ TheSession.status = "completed"
  /\ Len(task.detections) = 2 /\ task.detections[1] # task.detections[2]
  /\ Len(TheSession.proposals) = 2

\* ------------------------------------------------------------------- C22
NearEdge(r) ==
  \/ r.x1 < 10 \/ r.y1 < 10 \/ 1920 - r.x2 < 10 \/ 1080 - r.y2 < 10
Small(r) == r.x2 - r.x1 < 50 \/ r.y2 - r.y1 < 50

StandardizedAt(pct) ==
  /\ geometry.fn = "standardize_bbox"
  /\ geometry.args[2] = pct /\ geometry.args[3] = pct
Within(a, b, d) == a - b <= d /\ b - a <= d

\* C23 as stated: for integer boxes, standardize_bbox(bbox, 100, 100) returns
\* the box up to rounding (each coordinate within 1 px of the input), and
\* standardize_bbox(bbox, 120, 120) returns a rect whose width and height are
\* exactly 120% of the detected width and height and whose centre is the
\* centre of the input box.
C23_Original ==
  LET b == geometry.args[1]
      r == geometry.result
  IN /\ StandardizedAt(100) =>
          /\ Within(r.x1, b[1], 1) /\ Within(r.y1, b[2], 1)
          /\ Within(r.x2, b[3], 1) /\ Within(r.y2, b[4], 1)
     /\ StandardizedAt(120) =>
          /\ 100 * (r.x2 - r.x1) = 120 * (b[3] - b[1])
          /\ 100 * (r.y2 - r.y1) = 120 * (b[4] - b[2])
          /\ r.x1 + r.x2 = b[1] + b[3]
          /\ r.y1 + r.y2 = b[2] + b[4]

\* C23, amended: for integer boxes with x1 <= x2 and y1 <= y2,
\* standardize_bbox(bbox, 100, 100) keeps x1 and y1 and returns x2 and y2 or
\* one pixel less; standardize_bbox(bbox, 120, 120) returns a rect whose width
\* and height are 120% of the detected ones rounded down to an even number of
\* pixels (at most 120%, less than 2 px below it) and whose centre is the
\* centre of the input box rounded down to a whole pixel.
C23_UpToRounding ==
  LET b == geometry.args[1]
      r == geometry.result
      RoundedSide(side, detected) ==
        /\ side % 2 = 0
        /\ 100 * side <= 120 * detected
        /\ 120 * detected < 100 * (side + 2)
      RoundedCentre(sum, detected_sum) == sum = 2 * (detected_sum \div 2)
  IN /\ StandardizedAt(100) =>
          /\ r.x1 = b[1] /\ r.y1 = b[2]
          /\ r.x2 \in {b[3] - 1, b[3]} /\ r.y2 \in {b[4] - 1, b[4]}
     /\ StandardizedAt(120) =>
          /\ RoundedSide(r.x2 - r.x1, b[3] - b[1])
          /\ RoundedSide(r.y2 - r.y1, b[4] - b[2])
          /\ RoundedCentre(r.x1 + r.x2, b[1] + b[3])
          /\ RoundedCentre(r.y1 + r.y2, b[2] + b[4])

\* standardize_bbox(bbox, 120, 120) was called on a box whose width is no
\* multiple of 5 and whose centre lies between two pixels
C23_Witness ==
  /\ StandardizedAt(120)
  /\ (geometry.args[1][3] - geometry.args[1][1]) % 5 # 0
  /\ (geometry.args[1][1] + geometry.args[1][3]) % 2 = 1
  /\ geometry.result.x2 - geometry.result.x1 = 68

\* ------------------------------------------------------------------- C24
BoxArea(bbox) == (bbox[3] - bbox[1]) * (bbox[4] - bbox[2])

\* C24 as stated: the presence signal of a spot is true exactly when some
\* detection overlaps the spot rectangle by at least 30% of the detection's
\* own area (intersection area / detection area >= 0.30); the area of the
\* spot rectangle does not enter the test.
C24_Original ==
  geometry.fn = "get_detections_in_rois" =>
    LET detections == geometry.args[1]
        roi == geometry.args[2]
    IN geometry.result =
         (\E k \in DOMAIN detections :
             /\ BoxArea(detections[k]) > 0
             /\ 10 * IntersectionArea(detections[k], roi) >= 3 * BoxArea(detections[k]))

\* ------------------------------------------------------------------- C25
\* the counter apply_proposals read, from the spaces the request holds
CounterRead(h) ==
  Get(req[h].spaces[FindSpace(req[h].spaces, SpaceId)], "next_spot_number", 1)
\* an auto-numbering apply_proposals built its spots from the labels that
\* get_proposals wrote at the counter the request read
AppliedAsRead(h) ==
  /\ req[h].op = "apply" /\ req[h].auto_number
  /\ req[h].pc \in {"save_spots", "save_spaces"} \/ (req[h].pc = "done" /\ req[h].result = "ok")
  /\ TheSession.proposals # <<>>
  /\ TheSession.proposals[1].suggested_label = <<"", CounterRead(h)>>
\* the positions of the proposals the spots were created from, in order
SourcePositions(h) ==
  LET len == Len(TheSession.proposals)
      used == SelectSeq(req[h].approved_indices, LAMBDA idx : idx < len)
  IN [j \in DOMAIN used |-> PyPosition(used[j], len)]
ReportedNumber(position) == TheSession.proposals[position].suggested_label[2]

\* C25 as stated: if get_proposals is read and apply_proposals(auto_number=
\* true) is then called with no change of the space's counter in between,
\* every created spot's spot_number equals the suggested_label get_proposals
\* reported for the proposal it was created from, for every list of approved
\* indices (a proper subset and any order included).
C25_Original ==
  AppliedAsRead("h1") =>
    \A j \in DOMAIN req["h1"].new_spots :
       req["h1"].new_spots[j].spot_number = <<ReportedNumber(SourcePositions("h1")[j])>>

\* C25, amended: get_proposals reports for the proposal at index idx the label
\* counter + idx, and apply_proposals(auto_number=true), called with no change
\* of the counter in between, gives the j-th spot it creates (j = 0, 1, ...)
\* the number counter + j, whichever proposal the spot is created from. A
\* created spot's spot_number therefore equals the reported label of its
\* proposal when approved_indices is 0, 1, ..., k-1 in this order, and can
\* differ for a proper subset or another order.
C25_LabelsByPosition ==
  AppliedAsRead("h1") =>
    /\ \A position \in DOMAIN TheSession.proposals :
          ReportedNumber(position) = CounterRead("h1") + (position - 1)
    /\ \A j \in DOMAIN req["h1"].new_spots :
          req["h1"].new_spots[j].spot_number = <<CounterRead("h1") + (j - 1)>>
    /\ (\A j \in DOMAIN req["h1"].approved_indices : req["h1"].approved_indices[j] = j - 1)
       => \A j \in DOMAIN req["h1"].new_spots :
             req["h1"].new_spots[j].spot_number = <<ReportedNumber(SourcePositions("h1")[j])>>

\* both proposals were approved in order after the counter had advanced, and
\* the two spots were stored with the numbers get_proposals had reported
C25_Witness ==
  /\ AppliedAsRead("h1")
  /\ req["h1"].pc = "done"
  /\ req["h1"].approved_indices = <<0, 1>>
  /\ Len(req["h1"].new_spots) = 2
  /\ CounterRead("h1") > 1

\* ------------------------------------------------------------- C26 - C28
\* this step called update_detections with spot s reported as v
SampledAs(s, v) ==
  /\ sampled' # None
  /\ \E k \in DOMAIN sampled'[1] : sampled'[1][k] = <<s, v>>
\* the state holds a call of update_detections with spot s reported as v
WasSampledAs(s, v) ==
  /\ sampled # None
  /\ \E k \in DOMAIN sampled[1] : sampled[1][k] = <<s, v>>
\* the step left the occupied flag and the sequential number of s alone
FlagAndNumberKept(s) ==
  /\ (s \in DOMAIN spot_states') = (s \in DOMAIN spot_states)
  /\ Get(spot_states', s, FALSE) = Get(spot_states, s, FALSE)
  /\ (s \in DOMAIN sequential_numbers') = (s \in DOMAIN sequential_numbers)
  /\ Get(sequential_numbers', s, 0) = Get(sequential_numbers, s, 0)

\* C26: when update_detections gets presence true for a spot that has no
\* active timer, it starts the timer at the current time and does nothing
\* else: the occupied flag and the sequential number of the spot are
\* unchanged and no change record is emitted for it in that call, whatever
\* the value of occupancy_minutes (0 included).
C26_TimerStartsOnly ==
  [][\A s \in Spots :
       (SampledAs(s, TRUE) /\ s \notin DOMAIN spot_timers) =>
          /\ s \in DOMAIN spot_timers' /\ spot_timers'[s] = now
          /\ FlagAndNumberKept(s)
          /\ s \notin DOMAIN changes']_vars

\* with occupancy_minutes = 0, a call at a later time found a vehicle in a
\* spot without a timer: the timer starts now and the spot is not occupied
C26_Witness ==
  \E s \in Spots :
     /\ occupancy_minutes = 0 /\ now > 0
     /\ WasSampledAs(s, TRUE)
     /\ s \in DOMAIN spot_timers /\ spot_timers[s] = now
     /\ ~Get(spot_states, s, FALSE)
     /\ s \notin DOMAIN changes

\* C27: when update_detections gets presence true for a spot with an active
\* timer, elapsed >= occupancy_minutes * 60 and the spot not occupied, the
\* spot flips to occupied, receives the current value of the global counter
\* (which is then incremented by one) and exactly one change record
\* {occupied: true, detected_at: timer start, occupied_since: now,
\* sequential_number: the assigned number} is emitted; in every other
\* presence-true case no record is emitted and the occupied flag and the
\* sequential number are unchanged.
C27_FlipOnDwell ==
  [][\A s \in Spots :
       SampledAs(s, TRUE) =>
         IF /\ s \in DOMAIN spot_timers
            /\ now - spot_timers[s] >= occupancy_minutes * 60
            /\ ~Get(spot_states, s, FALSE)
         THEN /\ s \in DOMAIN spot_states' /\ spot_states'[s]
              /\ s \in DOMAIN sequential_numbers'
              /\ sequential_numbers'[s] \in next_sequential .. (next_sequential' - 1)
              /\ next_sequential' - next_sequential =
                    Cardinality({t \in DOMAIN changes' : changes'[t].occupied})
              /\ s \in DOMAIN changes'
              /\ changes'[s] = [occupied |-> TRUE,
                                detected_at |-> <<spot_timers[s]>>,
                                occupied_since |-> <<now>>,
                                sequential_number |-> <<sequential_numbers'[s]>>]
         ELSE /\ s \notin DOMAIN changes'
              /\ FlagAndNumberKept(s)]_vars

\* a spot was marked occupied with the second number, its timer started earlier
C27_Witness ==
  \E s \in Spots :
     /\ WasSampledAs(s, TRUE)
     /\ s \in DOMAIN changes /\ changes[s].occupied
     /\ changes[s].sequential_number = <<2>>
     /\ changes[s].occupied_since = <<now>>
     /\ changes[s].detected_at # <<now>>
     /\ next_sequential = 3

\* C28: when update_detections gets presence false for a spot, the spot has
\* no active timer afterwards; if it was occupied it becomes free, its
\* sequential number is removed and a change record with occupied = false
\* and detected_at, occupied_since, sequential_number all null is emitted; if
\* it was not occupied no change record is emitted.
C28_AbsenceClears ==
  [][\A s \in Spots :
       SampledAs(s, FALSE) =>
         /\ s \notin DOMAIN spot_timers'
         /\ IF Get(spot_states, s, FALSE)
            THEN /\ s \in DOMAIN spot_states' /\ ~spot_states'[s]
                 /\ s \notin DOMAIN sequential_numbers'
                 /\ s \in DOMAIN changes'
                 /\ changes'[s] = [occupied |-> FALSE, detected_at |-> <<>>,
                                   occupied_since |-> <<>>, sequential_number |-> <<>>]
            ELSE s \notin DOMAIN changes']_vars

\* an occupied spot was reported empty: it is free, without timer and number,
\* while the other spot lost only its timer
C28_Witness ==
  \E s, t \in Spots :
     /\ s # t
     /\ WasSampledAs(s, FALSE) /\ WasSampledAs(t, FALSE)
     /\ s \in DOMAIN changes /\ ~changes[s].occupied
     /\ s \in DOMAIN spot_states /\ ~spot_states[s]
     /\ s \notin DOMAIN spot_timers /\ s \notin DOMAIN sequential_numbers
     /\ t \notin DOMAIN changes /\ t \notin DOMAIN spot_timers
     /\ next_sequential = 2

\* what the last call of get_stable_vehicles was asked and what it had to read
Queried == geometry.fn = "get_stable_vehicles"
QueriedHistory == Get(detections_history, geometry.args[1], <<>>)
\* vehicle v of the result was made of cluster g
MadeOf(v, g) ==
  /\ stable[v].detections_count = Len(groups[g])
  /\ stable[v].last_seen - stable[v].first_seen = SpanOf(g)
  /\ stable[v].bbox = average_bboxes([k \in DOMAIN groups[g] |-> BoxAt(groups[g][k])])
Lasting(g) == Len(groups[g]) >= 2 /\ SpanOf(g) >= stability_seconds

\* C29: a cluster is returned by get_stable_vehicles only if it has at least
\* 2 member detections and its time span max(ts) - min(ts) is at least
\* stability_seconds; every cluster with fewer members or a shorter span is
\* discarded; a camera with no history, with fewer than two samples or with
\* no detections yields an empty result and not an error.
C29_OnlyLastingClusters ==
  Queried =>
    /\ \A v \in DOMAIN stable : \E g \in DOMAIN groups : Lasting(g) /\ MadeOf(v, g)
    /\ \A g \in DOMAIN groups : ~Lasting(g) => ~\E v \in DOMAIN stable : MadeOf(v, g)
    /\ Len(stable) <= Cardinality({g \in DOMAIN groups : Lasting(g)})
    /\ geometry.result[1] = "returned" => geometry.result = Returned(stable)
    /\ (\/ geometry.args[1] \notin DOMAIN detections_history
        \/ Len(QueriedHistory) < 2
        \/ \A k \in DOMAIN QueriedHistory : QueriedHistory[k][2] = <<>>)
         => geometry.result = Returned(<<>>)

\* of two clusters of a camera one was seen twice, stability_seconds apart or
\* more, and is returned; the other was seen once and is not; the other
\* camera has a single sample
C29_Witness ==
  /\ Queried /\ stability_seconds > 0
  /\ Len(groups) = 2 /\ Len(stable) = 1
  /\ Len(groups[1]) = 2 /\ Len(groups[2]) = 1
  /\ MadeOf(1, 1)
  /\ \E c \in DOMAIN detections_history : c # geometry.args[1]

\* this step is a call add_frame_detections(c, detections)
Added(c, detections) ==
  /\ geometry'.fn = "add_frame_detections"
  /\ geometry'.args = <<c, detections>>
  /\ \/ detections_history' # detections_history
     \/ geometry.fn # "add_frame_detections"
     \/ geometry.args # geometry'.args
     \/ geometry.result # geometry'.result
HistoryAfter(c) == Get(detections_history', c, <<>>)
InWindow(c, t) == \A k \in DOMAIN HistoryAfter(c) : HistoryAfter(c)[k][1] >= t - 2 * stability_seconds
NewSampleKept(c, t, detections) ==
  HistoryAfter(c) # <<>> /\ HistoryAfter(c)[Len(HistoryAfter(c))] = <<t, detections>>
InTimeOrder(c) ==
  \A j, k \in DOMAIN HistoryAfter(c) : j <= k => HistoryAfter(c)[j][1] <= HistoryAfter(c)[k][1]
OthersUntouched(c) ==
  \A o \in Cameras \ {c} :
     /\ o \in DOMAIN detections_history' <=> o \in DOMAIN detections_history
     /\ o \in DOMAIN detections_history => detections_history'[o] = detections_history[o]

\* C30 as stated: after every add_frame_detections call at time t, every
\* sample retained for that camera has timestamp >= t - 2*stability_seconds,
\* the new sample is retained, the retained samples are in non-decreasing
\* timestamp order, and the histories of the other cameras are unchanged.
C30_Original ==
  [][\A c \in Cameras, detections \in FrameDetections :
       Added(c, detections) =>
         /\ InWindow(c, now)
         /\ NewSampleKept(c, now, detections)
         /\ InTimeOrder(c)
         /\ OthersUntouched(c)]_vars

\* C30 as amended: after every add_frame_detections call at time t, every
\* sample retained for that camera has timestamp >= t - 2*stability_seconds,
\* the retained samples are in non-decreasing timestamp order and the
\* histories of the other cameras are unchanged; the new sample is retained,
\* as the last one, when stability_seconds >= 0, and with a negative
\* stability_seconds nothing is retained for that camera.
C30_WindowOnInsert ==
  [][\A c \in Cameras, detections \in FrameDetections :
       Added(c, detections) =>
         /\ InWindow(c, now)
         /\ IF stability_seconds >= 0 THEN NewSampleKept(c, now, detections)
            ELSE c \in DOMAIN detections_history' /\ HistoryAfter(c) = <<>>
         /\ InTimeOrder(c)
         /\ OthersUntouched(c)]_vars

\* a call found one sample, older than the window, and left only the new one,
\* while the other camera still holds a sample as old as the pruned one
C30_Witness ==
  /\ geometry.fn = "add_frame_detections"
  /\ stability_seconds > 0
  /\ geometry.result = <<now, 1>>
  /\ \E c \in DOMAIN detections_history :
        /\ c = geometry.args[1]
        /\ detections_history[c] = <<<<now, geometry.args[2]>>>>
        /\ \E o \in DOMAIN detections_history :
              /\ o # c
              /\ Len(detections_history[o]) = 1
              /\ detections_history[o][1][1] < now - 2 * stability_seconds

\* ------------------------------------------------------------------- C31
\* C31: when an exception is raised during analysis (by the frame source, the
\* detector or the store), the background task catches it: the step that
\* handles it ends the task, leaves the session with status 'error' and a
\* non-empty error_message, and leaves the proposals as they were.
C31_ExceptionCaught ==
  [][(task.pc = "except" /\ task'.pc # "except") =>
       /\ task'.pc = "done"
       /\ sessions'[SessionId].status = "error"
       /\ sessions'[SessionId].error_message # None
       /\ sessions'[SessionId].error_message[1] # ""
       /\ sessions'[SessionId].error_message[1] = task.exc
       /\ sessions'[SessionId].proposals = TheSession.proposals]_vars

\* a sampling tick raised after frames had been analysed: the task is over,
\* the session is in error with the message of the exception
C31_Witness ==
  /\ SessionId \in DOMAIN sessions
  /\ task.pc = "done" /\ task.exc = "RuntimeError" /\ task.samples >= 1
  /\ TheSession.status = "error"
  /\ TheSession.error_message = Some("RuntimeError")
  /\ TheSession.frames_analyzed >= 1

\* ------------------------------------------------------------------- C32
\* the analysis of an 'average' or 'duration' session returned normally: no
\* exception, no cancel_analysis call
CompletedNormally ==
  /\ SessionId \in DOMAIN sessions
  /\ TheSession.mode \in {"average", "duration"}
  /\ task.pc = "done" /\ task.exc = "" /\ ~cancel_called

Registered == SessionId \in DOMAIN sessions
InTerminal == SessionId \in DOMAIN sessions /\ TheSession.status \in Terminal

\* C32: every session registered by start_analysis eventually reaches a
\* terminal status (completed, error or cancelled) when its background thread
\* keeps being scheduled; on normal completion of 'average'/'duration' mode
\* the status is 'completed' and vehicles_found equals the number of stable
\* vehicles and the number of proposals.
C32_ReachesTerminal ==
  /\ Registered ~> InTerminal
  /\ [](CompletedNormally =>
          /\ TheSession.status = "completed"
          /\ TheSession.vehicles_found = Len(task.detections)
          /\ TheSession.vehicles_found = Len(TheSession.proposals))

\* a 'duration' session that sampled frames completed with two stable vehicles
C32_Witness ==
  /\ CompletedNormally
  /\ TheSession.mode = "duration"
  /\ TheSession.status = "completed"
  /\ Len(task.detections) = 2 /\ TheSession.vehicles_found = 2
  /\ task.samples >= 2

\* ------------------------------------------------------------------- C33
\* the event that ends the transaction of a call: its notification, or its
\* write when the method notifies nobody
Closing(e) == e[3] = "notify" \/ (e[3] = "dump" /\ e[2] \notin Notifying)
Touches(e) == e[3] \in {"load", "dump", "notify"}
\* the last thing thread t did before position j, "" if nothing
LastOf(t, j) ==
  LET before == {i \in 1..(j - 1) : journal[i][1] = t}
  IN IF before = {} THEN "" ELSE journal[SetMax(before)][3]

\* C33: state recomputation and notification are one transaction under the
\* StateManager lock: for concurrent update_multiple_spots / update_spot_state /
\* initialize_space calls, once a call has loaded the state no other call
\* loads, writes or notifies until the first call has written and delivered
\* its notification; a notification comes directly after the write of its
\* own call; a call whose state write fails delivers no notification.
C33_OneTransaction ==
  /\ \A i, j \in DOMAIN journal :
        (/\ i < j /\ journal[i][1] # journal[j][1]
         /\ journal[i][3] = "load" /\ Touches(journal[j]))
        => \E k \in (i + 1)..(j - 1) : journal[k][1] = journal[i][1] /\ Closing(journal[k])
  /\ \A j \in DOMAIN journal :
        /\ journal[j][3] = "notify" => LastOf(journal[j][1], j) = "dump"
        /\ journal[j][3] = "dump" => LastOf(journal[j][1], j) = "load"
        /\ journal[j][3] = "failed" => LastOf(journal[j][1], j) = "call"
        /\ LastOf(journal[j][1], j) = "failed" => journal[j][3] = "call"

\* two threads called while the lock was free; the first wrote and notified
\* before the second loaded the state, wrote and notified in its turn
C33_Witness ==
  /\ Len(journal) >= 8
  /\ journal[1][3] = "call" /\ journal[2][3] = "call" /\ journal[1][1] # journal[2][1]
  /\ \E i, j, k \in DOMAIN journal :
        /\ i < j /\ j < k
        /\ journal[i] = <<journal[1][1], "update_multiple_spots", "notify">>
        /\ journal[j] = <<journal[2][1], "update_spot_state", "load">>
        /\ journal[k] = <<journal[2][1], "update_spot_state", "notify">>
  /\ delivered # <<>>

\* ------------------------------------------------------------------- C34
\* spot s is in the batch of the update_detections call of this step
InBatch(s) == \E k \in DOMAIN sampled'[1] : sampled'[1][k][1] = s
TimerKept(s) ==
  /\ (s \in DOMAIN spot_timers') = (s \in DOMAIN spot_timers)
  /\ Get(spot_timers', s, 0) = Get(spot_timers, s, 0)
\* what the timer, the flag and the number of s are after a sample v, from
\* what they were for s alone
OwnOutcome(s, v) ==
  LET had_timer == s \in DOMAIN spot_timers
      was_occupied == Get(spot_states, s, FALSE)
      flips == /\ v /\ had_timer /\ ~was_occupied
               /\ now - spot_timers[s] >= occupancy_minutes * 60
  IN /\ IF v THEN /\ s \in DOMAIN spot_timers'
                  /\ spot_timers'[s] = (IF had_timer THEN spot_timers[s] ELSE now)
             ELSE s \notin DOMAIN spot_timers'
     /\ Get(spot_states', s, FALSE) = (IF v THEN was_occupied \/ flips ELSE FALSE)
     /\ (s \in DOMAIN sequential_numbers') =
           (IF v THEN s \in DOMAIN sequential_numbers \/ flips
            ELSE s \in DOMAIN sequential_numbers /\ ~was_occupied)
     /\ (s \in DOMAIN sequential_numbers /\ s \in DOMAIN sequential_numbers' /\ ~flips)
           => sequential_numbers'[s] = sequential_numbers[s]

\* C34: spots are debounced independently: in every update_detections call
\* a spot that is absent from the batch keeps its timer, occupied flag and
\* sequential number, and the timer, flag and number of a spot in the batch
\* follow from its own timer, flag and sample, whatever the other spots of the
\* batch are.
C34_SpotsIndependent ==
  [][sampled' # None =>
       \A s \in Spots :
          IF InBatch(s)
          THEN \A v \in BOOLEAN : SampledAs(s, v) => OwnOutcome(s, v)
          ELSE TimerKept(s) /\ FlagAndNumberKept(s)]_vars

\* a call that reported only one spot flipped it to occupied, while the other
\* spot, absent from the batch, is still occupied with its timer and number 1
C34_Witness ==
  \E s, t \in Spots :
     /\ s # t
     /\ sampled = Some(<<<<s, TRUE>>>>)
     /\ s \in DOMAIN changes /\ changes[s].occupied
     /\ t \in DOMAIN spot_timers /\ Get(spot_states, t, FALSE)
     /\ Get(sequential_numbers, t, 0) = 1 /\ Get(sequential_numbers, s, 0) = 2

\* ------------------------------------------------------------------- C35
\* this step turned the occupied flag of s from false to true
Flips(s) == ~Get(spot_states, s, FALSE) /\ Get(spot_states', s, FALSE)

\* C35: a spot flips to occupied only after continuous presence: a spot has a
\* timer exactly while every sample supplied for it since the timer was
\* started was true, and at the moment update_detections marks a spot
\* occupied the sample is true, the timer was started by an earlier sample
\* and at least occupancy_minutes*60 seconds have passed since the timer start.
C35_ContinuousPresence ==
  /\ [](\A s \in Spots : s \in DOMAIN spot_timers <=> streak[s] > 0)
  /\ [][\A s \in Spots :
          Flips(s) =>
            /\ SampledAs(s, TRUE)
            /\ streak[s] >= 1
            /\ s \in DOMAIN spot_timers /\ spot_timers'[s] = spot_timers[s]
            /\ now' - spot_timers[s] >= occupancy_minutes * 60]_vars

\* with a threshold of one minute a spot was marked occupied a minute or more
\* after its timer start, by the second true sample of a run or a later one
C35_Witness ==
  \E s \in Spots :
     /\ occupancy_minutes = 1
     /\ WasSampledAs(s, TRUE)
     /\ s \in DOMAIN changes /\ changes[s].occupied
     /\ streak[s] = MaxStreak
     /\ now - spot_timers[s] >= 60

\* ------------------------------------------------------------------- C36
\* the occupied flag state.json holds for a spot, false when it holds none
StoredOccupied(sp) ==
  /\ sp.space_id \in DOMAIN state_file
  /\ Get(Get(state_file[sp.space_id].spots, sp.id, EmptyDict), "occupied", FALSE)

\* C36 as stated: the persisted state follows the debouncer: at the end of
\* every detection cycle, for every parking spot in the store, the occupied
\* flag recorded in the state store equals the occupied flag held by
\* OccupancyTracker, also after a cycle in which update_multiple_spots raised
\* or skipped a spot.
C36_Original ==
  \A k \in DOMAIN spots_file :
     spots_file[k].type = "parking" =>
        StoredOccupied(spots_file[k]) = Get(spot_states, spots_file[k].id, FALSE)

\* C37: after any sequence of create_spot, update_spot (type change),
\* delete_spot and update_multiple_spots operations, the stored total_spots of
\* every space of state.json equals the number of 'parking'-type spots
\* currently stored for that space.
C37_Original ==
  \A space_id \in DOMAIN state_file :
     state_file[space_id].total_spots = Len(ParkingOf(space_id))

ProgressOf(ss) == IF SessionId \in DOMAIN ss THEN ss[SessionId].progress ELSE 0
CompletedAtFull ==
  (SessionId \in DOMAIN sessions /\ TheSession.status = "completed")
     => TheSession.progress = 100
ProgressInRange == ProgressOf(sessions) \in 0..100
FramesCounted ==
  SessionId \in DOMAIN sessions => TheSession.frames_analyzed <= task.samples
ProgressGrows == ProgressOf(sessions') >= ProgressOf(sessions)

\* C38: whenever a session's status is 'completed' its progress is 100;
\* progress stays within 0..100 and never decreases during a session; and
\* frames_analyzed never exceeds the number of frames that were passed to the
\* detector (a tick without a frame is not counted).
C38_Original ==
  /\ [](CompletedAtFull /\ ProgressInRange /\ FramesCounted)
  /\ [][ProgressGrows]_vars

SameBoxEveryTick ==
  /\ task.i = AverageDuration \div AverageInterval
  /\ task.samples = task.i
  /\ Sightings = task.i
  /\ \A k \in 1..Sightings :
        /\ Flatten(detections_history[SessionCamera])[k][2]
              = Flatten(detections_history[SessionCamera])[1][2]
        /\ Flatten(detections_history[SessionCamera])[k][1] = (k - 1) * AverageInterval

\* C39: an 'average' session (30 samples at 1-second ticks) with
\* stability_seconds = 30 in which the same vehicle box is detected at every
\* tick completes with at least one stable vehicle and at least one proposal,
\* the sample timestamps being the tick times.
C39_Original ==
  (/\ SessionId \in DOMAIN sessions
   /\ TheSession.status = "completed"
   /\ stability_seconds = DefaultStability
   /\ SameBoxEveryTick)
     => (TheSession.vehicles_found >= 1 /\ Len(TheSession.proposals) >= 1)

\* the step of an apply_proposals call that stores its batch
Applies(h) ==
  /\ req[h].op = "apply" /\ req[h].pc = "save_spots"
  /\ req'[h].pc # "save_spots" /\ req'[h].result # "TimeoutError"

\* C40: each apply_proposals call on a completed session adds exactly one new
\* spot per in-range entry of approved_indices, duplicates counted each time
\* and earlier calls on the session notwithstanding (a second identical call
\* adds as many spots again); the session's status and proposals are left
\* unchanged by apply.
C40_Original ==
  [][\A h \in Handlers :
       Applies(h) =>
         /\ Len(spots_file') = Len(spots_file)
               + Len(InRange(req[h].approved_indices, Len(TheSession.proposals)))
         /\ sessions' = sessions]_vars

====
